---------------------------- MODULE Spec2Model ----------------------------
(***************************************************************************)
(* A model of the valuation core of kons-simulator: the two containers     *)
(* (LinkedList, Minheap), the virtual Clock with its callback queue, and   *)
(* the Variable / FurnaceVariable engine built on them.                    *)
(*                                                                         *)
(* The containers are modelled as pure operators over container values, so *)
(* that the Clock, the Variable and the FurnaceVariable use the very same  *)
(* push / pop / filterIterate the container specification exercises.       *)
(***************************************************************************)
EXTENDS Integers, Sequences, FiniteSets, TLC

(***************************************************************************)
(* Bounds of the model.                                                    *)
(***************************************************************************)
\* Longest linked list (and number of list nodes that can be live at once).
MaxLen == 3
\* Distinct objects stored in a stand-alone linked list: 1..MaxObj.
MaxObj == 3
\* Callback functions created in one run.
MaxCallbacks == 3
\* The clock is advanced up to this many game minutes.
MaxMinutes == 2
\* Fuels held by a FurnaceVariable at once.
MaxFuels == 3
\* Modifiers held by a Variable at once (fewer than MaxLen).
MaxMods == 2
\* Elements held by a stand-alone Minheap at once.
MaxHeap == 4
\* The largest value assigned to the progress of a ManualModifier.
MaxProgress == 3
\* The most tests a suite of the test runner declares.
MaxTests == 2
\* The greatest number of uses a Usable is made with.
MaxUses == 2
\* The most instructions a SequenceBuilder holds committed.
MaxInstructions == 4
\* The most instructions a SequenceBuilder holds uncommitted.
MaxQueued == 2

(***************************************************************************)
(* JavaScript values the model needs besides integers.                     *)
(***************************************************************************)
\* The JavaScript null (a node id, a duration, a weight argument).
Null == 0
\* An operation returned normally / threw.
Ok == "ok"
Threw == "threw"

(***************************************************************************)
(* engine/containers.ts : LinkedList                                       *)
(* A list value is [first, last, count, node]; node maps a node id to its  *)
(* {obj, prev, next} record.  A node id that is not allocated has          *)
(* used = FALSE.                                                           *)
(***************************************************************************)
NodeIds == 1..MaxLen

FreeNode == [obj |-> Null, prev |-> Null, next |-> Null, used |-> FALSE]

\* new LinkedList(): first = last = null, count = 0.
EmptyList == [first |-> Null, last |-> Null, count |-> 0,
              node |-> [n \in NodeIds |-> FreeNode]]

\* The object literal {obj, next, prev} allocates a fresh node: the model
\* takes the smallest id that is not in use.
NewNode(l) ==
  CHOOSE n \in NodeIds :
    /\ ~l.node[n].used
    /\ \A m \in NodeIds : ~l.node[m].used => n <= m

\* LinkedList.push(obj)
push(l, obj) ==
  LET n == NewNode(l)
      made == [l.node EXCEPT ![n] =
                 [obj |-> obj, next |-> Null, prev |-> l.last, used |-> TRUE]]
  IN  [first |-> IF l.last = Null THEN n ELSE l.first,
       last  |-> n,
       count |-> l.count + 1,
       node  |-> IF l.last = Null THEN made
                 ELSE [made EXCEPT ![l.last].next = n]]

\* LinkedList.prepend(obj)
prepend(l, obj) ==
  LET n == NewNode(l)
      made == [l.node EXCEPT ![n] =
                 [obj |-> obj, next |-> l.first, prev |-> Null, used |-> TRUE]]
  IN  [first |-> n,
       last  |-> IF l.first = Null THEN n ELSE l.last,
       count |-> l.count + 1,
       node  |-> IF l.first = Null THEN made
                 ELSE [made EXCEPT ![l.first].prev = n]]

\* A removeNode that leaves the prev link of the node after it as it was.
removeNodeKeepPrev(l, n) ==
  LET nd == l.node[n]
  IN  [first |-> IF n = l.first THEN nd.next ELSE l.first,
       last  |-> IF n = l.last THEN nd.prev ELSE l.last,
       count |-> l.count - 1,
       node  |-> IF nd.prev # Null
                 THEN [l.node EXCEPT ![nd.prev].next = nd.next]
                 ELSE l.node]

\* LinkedList.removeNode(node): the four independent ifs, then count--.
\* The removed node keeps its own prev / next fields.
removeNode(l, n) ==
  LET nd == l.node[n]
      n1 == IF nd.prev # Null THEN [l.node EXCEPT ![nd.prev].next = nd.next]
            ELSE l.node
      n2 == IF nd.next # Null THEN [n1 EXCEPT ![nd.next].prev = nd.prev]
            ELSE n1
  IN  [first |-> IF n = l.first THEN nd.next ELSE l.first,
       last  |-> IF n = l.last THEN nd.prev ELSE l.last,
       count |-> l.count - 1,
       node  |-> n2]

\* LinkedList.clear()
clear(l) == [l EXCEPT !.first = Null, !.last = Null, !.count = 0]

\* The nodes met by following next from `cur`, at most `fuel` of them.
RECURSIVE Forward(_, _, _)
Forward(l, cur, fuel) ==
  IF cur = Null \/ fuel = 0 THEN << >>
  ELSE <<cur>> \o Forward(l, l.node[cur].next, fuel - 1)

\* The nodes met by following prev from `cur`, at most `fuel` of them.
RECURSIVE Backward(_, _, _)
Backward(l, cur, fuel) ==
  IF cur = Null \/ fuel = 0 THEN << >>
  ELSE <<cur>> \o Backward(l, l.node[cur].prev, fuel - 1)

\* LinkedList[Symbol.iterator] run to its end, as toArray() does.
toArray(l) ==
  LET ns == Forward(l, l.first, MaxLen + 1)
  IN  [i \in 1..Len(ns) |-> l.node[ns[i]].obj]

\* Where node n comes in the sequence of nodes ns (Null when it does not).
Position(ns, n) ==
  IF \E i \in 1..Len(ns) : ns[i] = n
  THEN CHOOSE i \in 1..Len(ns) : ns[i] = n /\ \A j \in 1..(i - 1) : ns[j] # n
  ELSE Null

\* Nodes no longer reachable from the list are garbage, and a node's
\* address cannot be observed: the live nodes are renumbered in list order,
\* their links following them.
Collect(l) ==
  LET ns == Forward(l, l.first, MaxLen)
      to(n) == IF n = Null THEN Null ELSE Position(ns, n)
  IN  [first |-> to(l.first), last |-> to(l.last), count |-> l.count,
       node |-> [k \in NodeIds |->
                   IF k <= Len(ns)
                   THEN [obj |-> l.node[ns[k]].obj,
                         prev |-> to(l.node[ns[k]].prev),
                         next |-> to(l.node[ns[k]].next),
                         used |-> TRUE]
                   ELSE FreeNode]]

\* A remove that scans from the head.
RECURSIVE removeScanForward(_, _, _)
removeScanForward(l, current, obj) ==
  IF current = Null THEN [list |-> l, ret |-> FALSE]
  ELSE IF l.node[current].obj = obj
       THEN [list |-> removeNode(l, current), ret |-> TRUE]
       ELSE removeScanForward(l, l.node[current].next, obj)

removeFirst(l, obj) == removeScanForward(l, l.first, obj)

\* LinkedList.remove(obj): scan from the tail, remove the first match.
RECURSIVE removeScan(_, _, _)
removeScan(l, current, obj) ==
  IF current = Null THEN [list |-> l, ret |-> FALSE]
  ELSE IF l.node[current].obj = obj
       THEN [list |-> removeNode(l, current), ret |-> TRUE]
       ELSE removeScan(l, l.node[current].prev, obj)

remove(l, obj) == removeScan(l, l.last, obj)

\* LinkedList.filterIterate(predicate), the generator run to completion by
\* a for-of loop.  `Keep` is the set of objects for which the predicate
\* returns true and `Bad` the set for which evaluating it throws; the loop
\* ends at the first throw.  The result is the list, the sequence of
\* yielded objects and whether the traversal threw.
RECURSIVE filterLoop(_, _, _, _, _)
filterLoop(l, current, Keep, Bad, out) ==
  IF current = Null
  THEN [list |-> l, yielded |-> out, status |-> Ok]
  ELSE LET obj == l.node[current].obj
       IN  IF obj \in Bad
           THEN [list |-> l, yielded |-> out, status |-> Threw]
           ELSE IF obj \in Keep
           THEN filterLoop(l, l.node[current].next, Keep, Bad,
                           Append(out, obj))
           ELSE LET prev == l.node[current].prev
                    l2 == removeNode(l, current)
                    \* current = prev ?? this.first
                    c2 == IF prev # Null THEN prev ELSE l2.first
                IN  IF c2 = Null
                    THEN [list |-> l2, yielded |-> out, status |-> Ok]
                    \* the for statement's update: current = current.next
                    ELSE filterLoop(l2, l2.node[c2].next, Keep, Bad, out)

filterIterate(l, Keep, Bad) == filterLoop(l, l.first, Keep, Bad, << >>)

\* for (const x of list.filterIterate(p)) { ...; break; } : the generator
\* is run until it has yielded k objects (k >= 1) and is then returned
\* from, so the loop does nothing after its k-th yield.  The result is the
\* list, the objects yielded and whether the traversal was abandoned (it
\* is not when the loop ends before the k-th yield).
RECURSIVE filterLoopUpTo(_, _, _, _, _)
filterLoopUpTo(l, current, Keep, out, k) ==
  IF current = Null
  THEN [list |-> l, yielded |-> out, abandoned |-> FALSE]
  ELSE LET obj == l.node[current].obj
       IN  IF obj \in Keep
           THEN IF Len(out) + 1 = k
                THEN [list |-> l, yielded |-> Append(out, obj),
                      abandoned |-> TRUE]
                ELSE filterLoopUpTo(l, l.node[current].next, Keep,
                                    Append(out, obj), k)
           ELSE LET prev == l.node[current].prev
                    l2 == removeNode(l, current)
                    c2 == IF prev # Null THEN prev ELSE l2.first
                IN  IF c2 = Null
                    THEN [list |-> l2, yielded |-> out, abandoned |-> FALSE]
                    ELSE filterLoopUpTo(l2, l2.node[c2].next, Keep, out, k)

filterIterateUpTo(l, Keep, k) == filterLoopUpTo(l, l.first, Keep, << >>, k)

(***************************************************************************)
(* engine/containers.ts : Minheap                                          *)
(* A heap value is the `elements` array, a sequence of [obj, weight].  The *)
(* code indexes it from 0; At / swap take the code's indices.              *)
(***************************************************************************)
EmptyHeap == << >>

At(h, i) == h[i + 1]

swap(h, i, j) == [h EXCEPT ![i + 1] = h[j + 1], ![j + 1] = h[i + 1]]

isEmpty(h) == Len(h) = 0

\* Minheap.peek() / peekWeight() on a non-empty heap.
peek(h) == At(h, 0).obj
peekWeight(h) == At(h, 0).weight

\* The loop of Minheap.push: swap with the parent until it is no heavier.
RECURSIVE siftUp(_, _)
siftUp(h, i) ==
  IF i > 0
  THEN LET parentIndex == (i - 1) \div 2
       IN  IF At(h, parentIndex).weight <= At(h, i).weight THEN h
           ELSE siftUp(swap(h, parentIndex, i), parentIndex)
  ELSE h

\* A push that appends without restoring the heap order.
heapPushNoSift(h, obj, weight) == Append(h, [obj |-> obj, weight |-> weight])

\* Minheap.push(obj, weight)
heapPush(h, obj, weight) ==
  siftUp(Append(h, [obj |-> obj, weight |-> weight]), Len(h))

\* A sift-down that only ever looks at the left child.
RECURSIVE siftDownLeftOnly(_, _)
siftDownLeftOnly(h, i) ==
  LET leftIndex == 2 * i + 1
  IN  IF leftIndex >= Len(h) THEN h
      ELSE IF At(h, i).weight <= At(h, leftIndex).weight THEN h
           ELSE siftDownLeftOnly(swap(h, i, leftIndex), leftIndex)

\* The loop of Minheap.pop: swap with the smallest child until the heap
\* property is restored.
RECURSIVE siftDown(_, _)
siftDown(h, i) ==
  LET leftIndex == 2 * i + 1
      rightIndex == leftIndex + 1
  IN  IF leftIndex >= Len(h) THEN h
      ELSE LET indexOfSmallest ==
                 IF \/ rightIndex = Len(h)
                    \/ At(h, leftIndex).weight <= At(h, rightIndex).weight
                 THEN leftIndex ELSE rightIndex
           IN  IF At(h, i).weight <= At(h, indexOfSmallest).weight THEN h
               ELSE siftDown(swap(h, i, indexOfSmallest), indexOfSmallest)

\* A pop that drops the last element without moving it to the root.
heapPopKeepRoot(h) ==
  [heap |-> SubSeq(h, 1, Len(h) - 1), ret |-> At(h, 0).obj]

\* Minheap.pop() on a non-empty heap: the returned object and the heap left.
heapPop(h) ==
  LET obj == At(h, 0).obj
      last == h[Len(h)]
      rest == SubSeq(h, 1, Len(h) - 1)
  IN  IF isEmpty(rest) THEN [heap |-> rest, ret |-> obj]
      ELSE [heap |-> siftDown([rest EXCEPT ![1] = last], 0), ret |-> obj]

\* The objects held by a heap, in array order (Minheap[Symbol.iterator]).
heapObjs(h) == [i \in 1..Len(h) |-> h[i].obj]

\* A peek that returns null on an empty heap.
Minheap_peekSilent(h) ==
  IF isEmpty(h) THEN [heap |-> h, ret |-> Null, status |-> Ok]
  ELSE [heap |-> h, ret |-> peek(h), status |-> Ok]

\* Minheap.peek(), Minheap.peekWeight() and Minheap.pop() with their test
\* for an empty heap: the heap afterwards, the value returned and whether
\* the call threw `Heap is empty`.
Minheap_peek(h) ==
  IF isEmpty(h) THEN [heap |-> h, ret |-> Null, status |-> Threw]
  ELSE [heap |-> h, ret |-> peek(h), status |-> Ok]

Minheap_peekWeight(h) ==
  IF isEmpty(h) THEN [heap |-> h, ret |-> Null, status |-> Threw]
  ELSE [heap |-> h, ret |-> peekWeight(h), status |-> Ok]

Minheap_pop(h) ==
  IF isEmpty(h) THEN [heap |-> h, ret |-> Null, status |-> Threw]
  ELSE [heap |-> heapPop(h).heap, ret |-> heapPop(h).ret, status |-> Ok]

(***************************************************************************)
(* clock.js : Clock                                                        *)
(* Times are game minutes.  The model advances the clock by whole game     *)
(* minutes, so the division in Clock.update is exact.                      *)
(***************************************************************************)
\* Clock.realMillisecondsPerGameMinute
realMillisecondsPerGameMinute == 2000

\* Clock.NEVER, a Symbol: a value that is no number.  Every time the model
\* handles is >= 0, so -1 is free to stand for it.
NEVER == -1

\* The relational and arithmetic operators of JavaScript convert a Symbol
\* operand to a number, which throws a TypeError.
throwsTypeError(a, b) == a = NEVER \/ b = NEVER

CbIds == 1..MaxCallbacks

\* A callback function that does not exist yet.
NoCallback == [kind |-> "none", scheduled |-> FALSE, time |-> 0, calls |-> 0,
               how |-> "", child |-> Null, offset |-> 0, promise |-> "none"]

\* new Clock(): no time elapsed, an empty callback queue.
NewClock == [elapsedRealMilliseconds |-> 0, elapsedGameMinutes |-> 0,
             callbacks |-> EmptyHeap]

\* Clock.now()
now(w) == w.clock.elapsedGameMinutes

\* Clock.after(minutes)
after(w, minutes) == now(w) + minutes

\* A "world" w is what a Clock operation reads and writes: the clock, the
\* callbacks (what each does when invoked, when it was scheduled for, how
\* often it has run, the promise it settles), the invocations made by the
\* operation under way, and whether that operation threw.
\*
\* invoke(w, c, how): the call callback() of Clock.schedule (how = "sync")
\* or this.callbacks.pop()() of Clock.update (how = "pop").  A "plain"
\* callback only runs; a "resolve" callback is the resolve function of the
\* promise made by Clock.waitUntil; a "chain" callback calls
\* Clock.schedule(child, Clock.after(offset)).
\* An "advance" callback calls Clock.instance.update with the milliseconds
\* of `offset` game minutes.
\* schedule(w, c, time): Clock.schedule(callback, time).
RECURSIVE invoke(_, _, _), schedule(_, _, _), update(_, _)
invoke(w, c, how) ==
  LET ran == [w EXCEPT !.cb[c].calls = @ + 1, !.cb[c].how = how,
                       !.fired = Append(@, [cb |-> c, time |-> w.cb[c].time,
                                            how |-> how])]
  IN  CASE w.cb[c].kind = "resolve" ->
             [ran EXCEPT !.cb[c].promise =
                           IF @ = "pending" THEN "resolved" ELSE @]
        [] w.cb[c].kind = "chain" ->
             schedule(ran, w.cb[c].child, after(ran, w.cb[c].offset))
        [] w.cb[c].kind = "advance" ->
             update(ran, w.cb[c].offset * realMillisecondsPerGameMinute)
        [] OTHER -> ran

\* A schedule that invokes only callbacks whose time is strictly past.
scheduleStrict(w, c, time) ==
  LET w0 == [w EXCEPT !.cb[c].scheduled = TRUE, !.cb[c].time = time]
  IN  IF throwsTypeError(time, now(w0)) THEN [w0 EXCEPT !.status = Threw]
      ELSE IF time < now(w0) THEN invoke(w0, c, "sync")
      ELSE [w0 EXCEPT !.clock.callbacks = heapPush(@, c, time)]

\* A schedule whose comparison with a Symbol is just false, and which does
\* not test for NEVER before queueing.
scheduleNever(w, c, time) ==
  LET w0 == [w EXCEPT !.cb[c].scheduled = TRUE, !.cb[c].time = time]
  IN  IF time # NEVER /\ time <= now(w0) THEN invoke(w0, c, "sync")
      ELSE [w0 EXCEPT !.clock.callbacks = heapPush(@, c, time)]

schedule(w, c, time) ==
  LET w0 == [w EXCEPT !.cb[c].scheduled = TRUE, !.cb[c].time = time]
  IN  IF throwsTypeError(time, now(w0)) THEN [w0 EXCEPT !.status = Threw]
      ELSE IF time <= now(w0) THEN invoke(w0, c, "sync")
      ELSE IF time # NEVER
           THEN [w0 EXCEPT !.clock.callbacks = heapPush(@, c, time)]
           ELSE w0

\* A waitUntil without the test for NEVER.
waitUntilUnchecked(w, c, time) ==
  schedule([w EXCEPT !.cb[c].promise = "pending"], c, time)

\* Clock.waitUntil(time); c is the resolve function of the new promise.
waitUntil(w, c, time) ==
  IF time = NEVER THEN [w EXCEPT !.cb[c].promise = "rejected"]
  ELSE schedule([w EXCEPT !.cb[c].promise = "pending"], c, time)

\* Clock.waitFor(minutes)
waitFor(w, c, minutes) ==
  IF throwsTypeError(now(w), minutes) THEN [w EXCEPT !.status = Threw]
  ELSE waitUntil(w, c, after(w, minutes))

\* A loop that leaves the callbacks due exactly now in the queue.
RECURSIVE drainStrict(_)
drainStrict(w) ==
  IF \/ isEmpty(w.clock.callbacks)
     \/ ~(peekWeight(w.clock.callbacks) < w.clock.elapsedGameMinutes)
  THEN w
  ELSE LET p == heapPop(w.clock.callbacks)
       IN  drainStrict(invoke([w EXCEPT !.clock.callbacks = p.heap], p.ret,
                              "pop"))

\* A loop that pops the whole queue, whatever the fire-times.
RECURSIVE drainAll(_)
drainAll(w) ==
  IF isEmpty(w.clock.callbacks) THEN w
  ELSE LET p == heapPop(w.clock.callbacks)
       IN  drainAll(invoke([w EXCEPT !.clock.callbacks = p.heap], p.ret,
                           "pop"))

\* The while loop of Clock.update.
RECURSIVE drain(_)
drain(w) ==
  IF \/ isEmpty(w.clock.callbacks)
     \/ ~(peekWeight(w.clock.callbacks) <= w.clock.elapsedGameMinutes)
  THEN w
  ELSE LET p == heapPop(w.clock.callbacks)
       IN  drain(invoke([w EXCEPT !.clock.callbacks = p.heap], p.ret, "pop"))

\* Clock.update(delta)
update(w, delta) ==
  LET ms == w.clock.elapsedRealMilliseconds + delta
  IN  drain([w EXCEPT !.clock.elapsedRealMilliseconds = ms,
                      !.clock.elapsedGameMinutes =
                         ms \div realMillisecondsPerGameMinute])

(***************************************************************************)
(* variable.js : Modifier, FixedModifier                                   *)
(* A modifier value is [kind, amount, duration, createdAt].                *)
(***************************************************************************)
\* The JavaScript null where a number is expected (a duration, a cached
\* value, a weight): no number the model uses.
JsNull == -2

\* new FixedModifier(amount, duration) at time t.  The default duration is
\* Clock.NEVER; null is a duration a caller can pass.
FixedModifier(amount, duration, t) ==
  [kind |-> "fixed", amount |-> amount, duration |-> duration,
   createdAt |-> t]

\* A modifier id that holds no modifier.
NoModifier == [kind |-> "none", amount |-> 0, duration |-> JsNull,
               createdAt |-> 0]

\* FixedModifier.canBeRemoved() throws: `>=` with the Symbol Clock.NEVER.
canBeRemovedThrows(m, t) ==
  m.duration # JsNull /\ throwsTypeError(t - m.createdAt, m.duration)

\* FixedModifier.canBeRemoved() at time t, when it does not throw.
canBeRemoved(m, t) ==
  m.duration # JsNull /\ t - m.createdAt >= m.duration

\* FixedModifier.value() at time t, when canBeRemoved() does not throw.
value(m, t) == IF canBeRemoved(m, t) THEN 0 ELSE m.amount

(***************************************************************************)
(* variable.js : BaseVariable, Variable                                    *)
(* A variable value is [baseValue, min, max, modifiers, cachedValue,       *)
(* lastRecomputed]; modifiers is a LinkedList of modifier ids, and `ms`    *)
(* maps each id to its modifier.                                           *)
(***************************************************************************)
Max2(a, b) == IF a >= b THEN a ELSE b
Min2(a, b) == IF a <= b THEN a ELSE b

\* Math.min(this.max, Math.max(this.min, x)) of BaseVariable.getValue.
clamp(x, lo, hi) == Min2(hi, Max2(lo, x))

\* new Variable(title, description, baseValue, min, max); the constructor
\* of BaseVariable throws unless min < max.
NewVariable(baseValue, lo, hi) ==
  [baseValue |-> baseValue, min |-> lo, max |-> hi,
   modifiers |-> EmptyList, cachedValue |-> JsNull,
   lastRecomputed |-> NEVER]

\* The sum of the amounts of a sequence of modifier ids.
RECURSIVE sumValues(_, _, _)
sumValues(ids, ms, t) ==
  IF ids = << >> THEN 0
  ELSE value(ms[Head(ids)], t) + sumValues(Tail(ids), ms, t)

\* A _computeValue that recomputes without looking at _lastRecomputed.
computeValueNoMemo(v, ms, t) ==
  LET r == filterIterate(v.modifiers,
                         {m \in DOMAIN ms :
                            /\ ~canBeRemovedThrows(ms[m], t)
                            /\ ~canBeRemoved(ms[m], t)},
                         {m \in DOMAIN ms : canBeRemovedThrows(ms[m], t)})
      sum == v.baseValue + sumValues(r.yielded, ms, t)
  IN  [var |-> [v EXCEPT !.modifiers = r.list,
                         !.cachedValue = sum,
                         !.lastRecomputed = IF r.status = Ok THEN t ELSE @],
       ret |-> sum, recomputed |-> TRUE, status |-> r.status]

\* Variable._computeValue() at time t: the variable afterwards, the value
\* returned, whether it recomputed and whether it threw.  When a predicate
\* call throws, the modifiers yielded so far have been added to
\* _cachedValue and _lastRecomputed has not been set.
computeValue(v, ms, t) ==
  IF v.lastRecomputed # t
  THEN LET r == filterIterate(v.modifiers,
                              {m \in DOMAIN ms :
                                 /\ ~canBeRemovedThrows(ms[m], t)
                                 /\ ~canBeRemoved(ms[m], t)},
                              {m \in DOMAIN ms : canBeRemovedThrows(ms[m], t)})
           sum == v.baseValue + sumValues(r.yielded, ms, t)
       IN  [var |-> [v EXCEPT !.modifiers = r.list,
                              !.cachedValue = sum,
                              !.lastRecomputed =
                                 IF r.status = Ok THEN t ELSE @],
            ret |-> sum, recomputed |-> TRUE, status |-> r.status]
  ELSE [var |-> v, ret |-> v.cachedValue, recomputed |-> FALSE,
        status |-> Ok]

\* A getValue that returns the computed value as it is.
getValueUnclamped(v, ms, t) == computeValue(v, ms, t)

\* BaseVariable.getValue() on a Variable at time t.
getValue(v, ms, t) ==
  LET r == computeValue(v, ms, t)
  IN  [r EXCEPT !.ret = clamp(r.ret, v.min, v.max)]

\* Variable.addModifier(modifier)
addModifier(v, m) ==
  [v EXCEPT !.modifiers = push(@, m), !.lastRecomputed = NEVER]

\* Variable.removeModifier(modifier): the result of LinkedList.remove is
\* not looked at.
removeModifier(v, m) ==
  [v EXCEPT !.modifiers = remove(@, m).list, !.lastRecomputed = NEVER]

\* Variable.clearModifiers()
clearModifiers(v) ==
  [v EXCEPT !.modifiers = clear(@), !.lastRecomputed = NEVER]

(***************************************************************************)
(* variable.js : ManualModifier, FurnaceVariable                           *)
(* A fuel is the ManualModifier made by addFuel: [quantity, duration,      *)
(* progress], with func(t) = quantity - t * burnRate.  The model uses      *)
(* quantities that are multiples of the duration, so the burn rate is an   *)
(* integer.                                                                *)
(***************************************************************************)
burnRate(quantity, duration) == quantity \div duration

\* new ManualModifier(t => quantity - t * burnRate, duration)
ManualModifier(quantity, duration) ==
  [quantity |-> quantity, duration |-> duration, progress |-> 0]

\* FunctionalModifier.canBeRemoved() on a ManualModifier.
fuelCanBeRemoved(f) == f.progress >= f.duration

\* A value() that ignores the progress made.
fuelValueFull(f) == f.quantity

\* FunctionalModifier.value() on a ManualModifier.
fuelValue(f) ==
  IF fuelCanBeRemoved(f) THEN 0
  ELSE f.quantity - f.progress * burnRate(f.quantity, f.duration)

\* A setter that assigns whatever it is given.
setProgressUnchecked(f, v) ==
  [mod |-> [f EXCEPT !.progress = v], status |-> Ok]

\* ManualModifier `set progress(value)`: the modifier afterwards and
\* whether the assignment threw.
setProgress(f, v) ==
  IF v < f.progress THEN [mod |-> f, status |-> Threw]
  ELSE [mod |-> [f EXCEPT !.progress = v], status |-> Ok]

\* new FurnaceVariable(...) at time t.
NewFurnace(baseValue, lo, hi, t) ==
  [baseValue |-> baseValue, min |-> lo, max |-> hi,
   modifiers |-> EmptyHeap, lastRecomputed |-> t]

\* FurnaceVariable.addFuel(quantity, duration, description, weight): the
\* furnace afterwards and whether the call threw.
addFuel(fv, quantity, duration, weight) ==
  IF duration <= 0 THEN [var |-> fv, status |-> Threw]
  ELSE IF quantity = 0 THEN [var |-> fv, status |-> Ok]
  ELSE [var |-> [fv EXCEPT !.modifiers =
                   heapPush(@, ManualModifier(quantity, duration),
                            IF weight # JsNull THEN weight
                            ELSE -burnRate(quantity, duration))],
        status |-> Ok]

\* A loop that drops what is left of timeToProgress when it pops a fuel.
RECURSIVE burnNoCarry(_, _)
burnNoCarry(h, timeToProgress) ==
  IF timeToProgress > 0 /\ ~isEmpty(h)
  THEN LET left == peek(h).duration - peek(h).progress
       IN  IF left > timeToProgress
           THEN [h EXCEPT ![1].obj.progress = @ + timeToProgress]
           ELSE heapPop(h).heap
  ELSE h

\* The while loop of FurnaceVariable.getValue: spend timeToProgress on the
\* fuel at the root of the heap, popping the fuels it uses up.
RECURSIVE burn(_, _)
burn(h, timeToProgress) ==
  IF timeToProgress > 0 /\ ~isEmpty(h)
  THEN LET currentModifier == peek(h)
           left == currentModifier.duration - currentModifier.progress
       IN  IF left > timeToProgress
           THEN burn([h EXCEPT ![1].obj.progress = @ + timeToProgress], 0)
           ELSE burn(heapPop(h).heap, timeToProgress - left)
  ELSE h

\* The sum of value() over the fuels of a heap, in array order.
RECURSIVE sumFuel(_)
sumFuel(h) ==
  IF h = << >> THEN 0 ELSE fuelValue(Head(h).obj) + sumFuel(Tail(h))

\* FurnaceVariable.getValue() at time t: it overrides
\* BaseVariable.getValue and returns the sum itself.
furnaceGetValue(fv, t) ==
  LET h == burn(fv.modifiers, t - fv.lastRecomputed)
  IN  [var |-> [fv EXCEPT !.modifiers = h, !.lastRecomputed = t],
       ret |-> fv.baseValue + sumFuel(h)]

(***************************************************************************)
(* variable.js : the constructors.  A class is named by a string; its      *)
(* static getters give the defaults that a null argument stands for.       *)
(***************************************************************************)
\* Number.POSITIVE_INFINITY, above every number the model constructs with.
Infinity == 100000

\* static get baseValue / min / max of BaseVariable, Variable and
\* FurnaceVariable, and of the subclasses Hunger and Temperature.
Statics(cls) ==
  CASE cls = "Hunger" -> [baseValue |-> 100, min |-> 0, max |-> 100]
    [] cls = "Temperature" ->
         [baseValue |-> 20, min |-> -273, max |-> 1000]
    [] OTHER -> [baseValue |-> 0, min |-> -Infinity, max |-> Infinity]

\* a ?? b
orElse(a, b) == IF a = JsNull THEN b ELSE a

\* A constructor that lets min = max through.
BaseVariableStrict(cls, lo, hi) ==
  LET mn == orElse(lo, Statics(cls).min)
      mx == orElse(hi, Statics(cls).max)
  IN  [min |-> mn, max |-> mx, status |-> IF mn > mx THEN Threw ELSE Ok]

\* BaseVariable.constructor(title, description, min, max, unit) run for
\* class cls: the bounds it assigns and whether it threw.
BaseVariable(cls, lo, hi) ==
  LET mn == orElse(lo, Statics(cls).min)
      mx == orElse(hi, Statics(cls).max)
  IN  [min |-> mn, max |-> mx, status |-> IF mn >= mx THEN Threw ELSE Ok]

\* new cls(title, description, baseValue, min, max) for Variable and its
\* subclasses: the object (`old` when the constructor threw) and whether
\* it threw.
constructVariable(cls, baseValue, lo, hi, old) ==
  LET b == BaseVariable(cls, lo, hi)
  IN  IF b.status = Threw THEN [var |-> old, status |-> Threw]
      ELSE [var |-> NewVariable(orElse(baseValue, Statics(cls).baseValue),
                                b.min, b.max),
            status |-> Ok]

\* new cls(title, description, baseValue, min, max) at time t for
\* FurnaceVariable and its subclasses.
constructFurnace(cls, baseValue, lo, hi, t, old) ==
  LET b == BaseVariable(cls, lo, hi)
  IN  IF b.status = Threw THEN [var |-> old, status |-> Threw]
      ELSE [var |-> NewFurnace(orElse(baseValue, Statics(cls).baseValue),
                               b.min, b.max, t),
            status |-> Ok]

(***************************************************************************)
(* js/variable.js : Modifier, SimpleVariable, CachedVariable               *)
(* A modifier of this module is [amount, zeroAfter, recomputePolicy]: its  *)
(* value() is the constant `amount`, as for its FixedModifier.  A cached   *)
(* variable is [baseValue, min, max, modifiers, cachedValue,               *)
(* lastRecomputed, recomputePolicy], `ms` mapping the ids in `modifiers`   *)
(* to the modifiers.                                                       *)
(***************************************************************************)
\* Modifier.RECOMPUTE_NEVER, Modifier.RECOMPUTE_EACH_UPDATE,
\* Modifier.HIGHEST_RECOMPUTE_CADENCY
RECOMPUTE_NEVER == 0
RECOMPUTE_EACH_UPDATE == 1
HIGHEST_RECOMPUTE_CADENCY == RECOMPUTE_EACH_UPDATE

\* new Modifier(description, zeroAfter, recomputePolicy) with a constant
\* value(); new FixedModifier(amount, description, zeroAfter) is the one
\* with recomputePolicy RECOMPUTE_NEVER.
PolicyModifier(amount, zeroAfter, recomputePolicy) ==
  [amount |-> amount, zeroAfter |-> zeroAfter,
   recomputePolicy |-> recomputePolicy]

\* An id that holds no modifier.
NoPolicyModifier == PolicyModifier(0, NEVER, RECOMPUTE_NEVER)

\* Modifier.canBeRemoved() at time t.
zeroAfterReached(m, t) == m.zeroAfter # NEVER /\ t >= m.zeroAfter

\* new CachedVariable(title, baseValue, description, min, max, unit)
NewCachedVariable(baseValue, lo, hi) ==
  [baseValue |-> baseValue, min |-> lo, max |-> hi,
   modifiers |-> EmptyList, cachedValue |-> JsNull,
   lastRecomputed |-> NEVER, recomputePolicy |-> RECOMPUTE_NEVER]

\* The loop of CachedVariable.onModifiersWereRemoved over the modifier ids
\* `ids`, from the policy found so far.
RECURSIVE highestPolicy(_, _, _)
highestPolicy(ids, ms, policy) ==
  IF ids = << >> THEN policy
  ELSE IF ms[Head(ids)].recomputePolicy > policy
  THEN IF ms[Head(ids)].recomputePolicy = HIGHEST_RECOMPUTE_CADENCY
       THEN ms[Head(ids)].recomputePolicy
       ELSE highestPolicy(Tail(ids), ms, ms[Head(ids)].recomputePolicy)
  ELSE highestPolicy(Tail(ids), ms, policy)

\* An onModifiersWereRemoved that leaves the policy as it is.
onModifiersWereRemovedKeepPolicy(v, ms) == [v EXCEPT !.cachedValue = JsNull]

\* CachedVariable.onModifiersWereRemoved()
onModifiersWereRemoved(v, ms) ==
  [v EXCEPT !.cachedValue = JsNull,
            !.recomputePolicy =
               highestPolicy(toArray(v.modifiers), ms, RECOMPUTE_NEVER)]

\* The sum of value() over a sequence of modifier ids.
RECURSIVE sumAmounts(_, _)
sumAmounts(ids, ms) ==
  IF ids = << >> THEN 0
  ELSE ms[Head(ids)].amount + sumAmounts(Tail(ids), ms)

\* SimpleVariable.getValue() on a CachedVariable at time t: the variable
\* afterwards and the value returned.  modifiersWereRemoved is set when
\* the predicate found a modifier that can be removed, which filterIterate
\* then removes.
simpleGetValue(v, ms, t) ==
  LET r == filterIterate(v.modifiers,
                         {m \in DOMAIN ms : ~zeroAfterReached(ms[m], t)},
                         {})
      modifiersWereRemoved == r.list.count < v.modifiers.count
      pruned == [v EXCEPT !.modifiers = r.list]
  IN  [var |-> IF modifiersWereRemoved
               THEN onModifiersWereRemoved(pruned, ms) ELSE pruned,
       ret |-> Max2(Min2(v.baseValue + sumAmounts(r.yielded, ms), v.max),
                    v.min)]

\* CachedVariable.getValue() at time t.
cachedGetValue(v, ms, t) ==
  IF \/ v.cachedValue = JsNull
     \/ /\ v.recomputePolicy = RECOMPUTE_EACH_UPDATE
        /\ v.lastRecomputed # t
  THEN LET r == simpleGetValue(v, ms, t)
       IN  [var |-> [r.var EXCEPT !.cachedValue = r.ret,
                                  !.lastRecomputed = t],
            ret |-> r.ret, recomputed |-> TRUE]
  ELSE [var |-> v, ret |-> v.cachedValue, recomputed |-> FALSE]

\* CachedVariable.addModifier(modifier), m the id of the modifier `mod`.
cachedAddModifier(v, m, mod) ==
  [v EXCEPT !.modifiers = push(@, m),
            !.cachedValue = JsNull,
            !.recomputePolicy = IF mod.recomputePolicy > @
                                THEN mod.recomputePolicy ELSE @]

\* SimpleVariable.removeModifier(modifier) on a CachedVariable.
cachedRemoveModifier(v, m, ms) ==
  onModifiersWereRemoved([v EXCEPT !.modifiers = remove(@, m).list], ms)

(***************************************************************************)
(* variable.js : FunctionalModifier.decaying                               *)
(* Initial and insignificant values are counted in halves (1 stands for    *)
(* 0.5) and are zero or plus or minus a power of two, so the logarithm of  *)
(* their ratio is an integer.  A functional modifier is [initialValue,     *)
(* halfLife, duration, createdAt].                                         *)
(***************************************************************************)
\* Math.sign
sign(x) == IF x > 0 THEN 1 ELSE IF x < 0 THEN -1 ELSE 0

\* Math.abs
abs(x) == IF x < 0 THEN -x ELSE x

\* Math.log2 of a positive power of two.
RECURSIVE log2(_)
log2(x) == IF x <= 1 THEN 0 ELSE 1 + log2(x \div 2)

\* Math.log2(a / b) for a and b of the same sign, both powers of two.
log2Ratio(a, b) == log2(abs(a)) - log2(abs(b))

NoFunctional ==
  [initialValue |-> 0, halfLife |-> 0, duration |-> 0, createdAt |-> 0]

\* new FunctionalModifier(func, duration, description) at time t, for the
\* func of decaying: the modifier and whether the constructor threw.
FunctionalModifier(initialValue, halfLife, duration, t) ==
  IF duration < 0 THEN [mod |-> NoFunctional, status |-> Threw]
  ELSE [mod |-> [initialValue |-> initialValue, halfLife |-> halfLife,
                 duration |-> duration, createdAt |-> t],
        status |-> Ok]

\* A decaying without Math.max(0, ...) around the duration.
decayingNoMax(initialValue, halfLife, insignificantValue, t) ==
  LET insignificant ==
        IF insignificantValue = JsNull THEN sign(initialValue) * 1
        ELSE insignificantValue
  IN  IF halfLife <= 0 THEN [mod |-> NoFunctional, status |-> Threw]
      ELSE IF sign(initialValue) # sign(insignificant)
      THEN [mod |-> NoFunctional, status |-> Threw]
      ELSE FunctionalModifier(
             initialValue, halfLife,
             IF initialValue = 0 THEN 0
             ELSE -halfLife * log2Ratio(insignificant, initialValue),
             t)

\* FunctionalModifier.decaying(initialValue, halfLife, description,
\* insignificantValue) at time t; the default insignificant value is
\* Math.sign(initialValue) * 0.5, one half.
decaying(initialValue, halfLife, insignificantValue, t) ==
  LET insignificant ==
        IF insignificantValue = JsNull THEN sign(initialValue) * 1
        ELSE insignificantValue
  IN  IF halfLife <= 0 THEN [mod |-> NoFunctional, status |-> Threw]
      ELSE IF sign(initialValue) # sign(insignificant)
      THEN [mod |-> NoFunctional, status |-> Threw]
      ELSE FunctionalModifier(
             initialValue, halfLife,
             IF initialValue = 0 THEN 0
             ELSE Max2(0, -halfLife
                            * log2Ratio(insignificant, initialValue)),
             t)

(***************************************************************************)
(* engine/testing.ts : Test.run, runSuite                                  *)
(* A run of runSuite over a suite that declares `tests` test methods and   *)
(* all three hooks is                                                      *)
(*   [tests, pc, testIndex, result, events, results]:                      *)
(* pc is the call the run makes next, testIndex counts the tests finished, *)
(* result is the result of the test being run (verdict "none" before it    *)
(* has one), events lists the calls made on the suite and results is the   *)
(* array that runSuite returns.  A test is named by its position in        *)
(* getTestNames, 0 standing for 'constructor'; a result is [test, tag,     *)
(* verdict] with the tag "setUp" for the name '<test> [setUp]'.            *)
(***************************************************************************)
NoResult == [test |-> 0, tag |-> "", verdict |-> "none"]

NewRun(tests) ==
  [tests |-> tests, pc |-> "constructor", testIndex |-> 0,
   result |-> NoResult, events |-> << >>, results |-> << >>]

\* The call made on the suite, appended to the events.
called(r, kind, test, threw) ==
  [r EXCEPT !.events = Append(@, [kind |-> kind, test |-> test,
                                  threw |-> threw])]

\* The next call of runSuite once testIndex tests have been run.
nextTest(r, testIndex) ==
  [r EXCEPT !.testIndex = testIndex, !.result = NoResult,
            !.pc = IF testIndex < r.tests THEN "setUp"
                   ELSE "tearDownClass"]

\* runSuite: the Test named 'constructor' runs `new suiteClass()`; it has
\* no setUp and no tearDown.  When it fails, its result is all there is.
runConstructor(r, threw) ==
  IF threw
  THEN [called(r, "constructor", 0, TRUE) EXCEPT
          !.results = <<[test |-> 0, tag |-> "", verdict |-> "fail"]>>,
          !.pc = "done"]
  ELSE nextTest(called(r, "constructor", 0, FALSE), 0)

\* A Test.run that goes on to the test body after a setUp that threw.
runSetUpIgnoringThrow(r, threw) ==
  [called(r, "setUp", r.testIndex + 1, threw) EXCEPT !.pc = "test"]

\* Test.run, the inner try: this.setUp?.(); when it throws, the result is
\* a fail named '<test> [setUp]' and the function returns, through the
\* finally block.
runSetUp(r, threw) ==
  LET test == r.testIndex + 1
  IN  IF threw
      THEN [called(r, "setUp", test, TRUE) EXCEPT
              !.result = [test |-> test, tag |-> "setUp",
                          verdict |-> "fail"],
              !.pc = "tearDown"]
      ELSE [called(r, "setUp", test, FALSE) EXCEPT !.pc = "test"]

\* Test.run: this.test(), awaited; a throw or a rejection is caught and
\* makes the result a fail.
runTest(r, threw) ==
  LET test == r.testIndex + 1
  IN  [called(r, "test", test, threw) EXCEPT
         !.result = [test |-> test, tag |-> "",
                     verdict |-> IF threw THEN "fail" ELSE "pass"],
         !.pc = "tearDown"]

\* Test.run, the finally block: this.tearDown?.(); a throw replaces a
\* result that is not a fail already.  Back in runSuite the result is
\* pushed and testIndex incremented.
runTearDown(r, threw) ==
  LET test == r.testIndex + 1
      result == IF threw /\ r.result.verdict # "fail"
                THEN [test |-> test, tag |-> "tearDown",
                      verdict |-> "fail"]
                ELSE r.result
      logged == called(r, "tearDown", test, threw)
  IN  nextTest([logged EXCEPT !.results = Append(@, result)],
               r.testIndex + 1)

\* runSuite: the tearDown of the Test that runs the loop is
\* suite.tearDownClass?.(); when it throws, the result is a fail named by
\* testName(), 'constructor' once every test has run, with ' [tearDown]'.
runTearDownClass(r, threw) ==
  LET logged == called(r, "tearDownClass", 0, threw)
  IN  [logged EXCEPT
         !.results = IF threw
                     THEN Append(@, [test |-> 0, tag |-> "tearDown",
                                     verdict |-> "fail"])
                     ELSE @,
         !.pc = "done"]

(***************************************************************************)
(* variable.js : MonitoringModifier                                        *)
(* A monitoring modifier is [variables], the sequence of the variables it  *)
(* reads; the model has two variables to name, "var" and "furnace".        *)
(***************************************************************************)
\* MonitoringModifier.sumOf(...terms), for at least one term.
sumOf(terms) == [variables |-> terms]

\* A monitoring modifier that does not exist.
NoMonitor == [variables |-> << >>]

\* this.variables.map((v) => v.getValue()): the calls are made in order,
\* each on the state the calls before it left.  The result is the two
\* variables afterwards and the values returned.
RECURSIVE mapGetValue(_, _, _, _, _, _)
mapGetValue(terms, v, ms, fv, t, values) ==
  IF terms = << >> THEN [var |-> v, furnace |-> fv, values |-> values]
  ELSE IF Head(terms) = "var"
       THEN LET r == getValue(v, ms, t)
            IN  mapGetValue(Tail(terms), r.var, ms, fv, t,
                            Append(values, r.ret))
       ELSE LET r == furnaceGetValue(fv, t)
            IN  mapGetValue(Tail(terms), v, ms, r.var, t,
                            Append(values, r.ret))

\* values.reduce((a, b) => a + b) on a non-empty array.
RECURSIVE reduceSum(_)
reduceSum(values) ==
  IF Len(values) = 1 THEN values[1]
  ELSE reduceSum(SubSeq(values, 1, Len(values) - 1)) + values[Len(values)]

\* A value() that adds up the base values of the variables.
monitoringValueOfBases(mon, v, ms, fv, t) ==
  [var |-> v, furnace |-> fv,
   ret |-> reduceSum([i \in 1..Len(mon.variables) |->
                        IF mon.variables[i] = "var" THEN v.baseValue
                        ELSE fv.baseValue])]

\* MonitoringModifier.value() of a sumOf modifier at time t.
monitoringValue(mon, v, ms, fv, t) ==
  LET r == mapGetValue(mon.variables, v, ms, fv, t, << >>)
  IN  [var |-> r.var, furnace |-> r.furnace, ret |-> reduceSum(r.values)]

\* MonitoringModifier.canBeRemoved()
monitoringCanBeRemoved(mon) == FALSE

(***************************************************************************)
(* variable.js : MonitoringModifier.linearMapOnto, and a Variable that     *)
(* holds the modifier it makes, as NPC.mood does.  The function of the     *)
(* modifier is kept as the fraction it multiplies with: the value is       *)
(* offset + multiplier * x = (offsetNum + num * x) / den, and the model    *)
(* uses source values for which the division is exact.                     *)
(***************************************************************************)
\* BaseVariable.hasBothBounds()
hasBothBounds(v) ==
  /\ v.min # -Infinity /\ v.min # Infinity
  /\ v.max # -Infinity /\ v.max # Infinity

\* MonitoringModifier.linearMapOnto(variable, min, max, ...descriptions)
\* for the FurnaceVariable fv: the modifier and whether the call threw.
linearMapOnto(fv, lo, hi) ==
  IF ~hasBothBounds(fv) THEN [mod |-> NoMonitor, status |-> Threw]
  ELSE [mod |-> [variables |-> <<"furnace">>,
                 num |-> hi - lo,
                 den |-> fv.max - fv.min,
                 offsetNum |-> lo * (fv.max - fv.min) - fv.min * (hi - lo)],
        status |-> Ok]

\* The function of a linearMapOnto modifier: offset + multiplier * x.
linearFunc(mon, x) == (mon.offsetNum + mon.num * x) \div mon.den

\* MonitoringModifier.value() of a linearMapOnto modifier at time t: it
\* calls getValue() of the source, which burns the source's fuel.
linearValue(mon, fv, t) ==
  LET r == furnaceGetValue(fv, t)
  IN  [furnace |-> r.var, ret |-> linearFunc(mon, r.ret)]

\* The loop of Variable._computeValue over the modifiers yielded, each the
\* monitoring modifier mon: the source afterwards and the sum.
RECURSIVE sumMonitoring(_, _, _, _, _)
sumMonitoring(ids, mon, fv, t, sum) ==
  IF ids = << >> THEN [furnace |-> fv, ret |-> sum]
  ELSE LET r == linearValue(mon, fv, t)
       IN  sumMonitoring(Tail(ids), mon, r.furnace, t, sum + r.ret)

\* BaseVariable.getValue() at time t on a Variable whose modifiers are the
\* monitoring modifier mon (canBeRemoved() is false, so filterIterate
\* keeps it): the variable and the source afterwards, the value returned
\* and whether _computeValue recomputed.
ownerGetValue(v, mon, fv, t) ==
  IF v.lastRecomputed # t
  THEN LET f == filterIterate(v.modifiers, Int, {})
           r == sumMonitoring(f.yielded, mon, fv, t, v.baseValue)
       IN  [var |-> [v EXCEPT !.modifiers = f.list, !.cachedValue = r.ret,
                              !.lastRecomputed = t],
            furnace |-> r.furnace,
            ret |-> clamp(r.ret, v.min, v.max), recomputed |-> TRUE]
  ELSE [var |-> v, furnace |-> fv,
        ret |-> clamp(v.cachedValue, v.min, v.max), recomputed |-> FALSE]

(***************************************************************************)
(* engine/gameArea.ts : Controller.  A game object is named by a number;   *)
(* what the model keeps of it is "new" (not registered), "live" (its id    *)
(* is a number) or "destroyed" (its id is null).                           *)
(***************************************************************************)
\* Controller.registerObject(object, layer): the layer afterwards; the
\* object gets the next id.
registerObject(l, st, obj) ==
  [layer |-> push(l, obj), objects |-> [st EXCEPT ![obj] = "live"]]

\* Controller.unregisterObject(object): object.id = null.
unregisterObject(st, obj) == [st EXCEPT ![obj] = "destroyed"]

\* The loop of Controller.update over one layer:
\*   for (const obj of layer.filterIterate((obj) => obj.id !== null))
\*     obj.update(delta);
\* with filterIterate's loop inside, since the predicate reads what the
\* update calls change.  The update of the object `killer` unregisters the
\* object `victim`, when that one is live; `ups` counts the update calls
\* each object has received.
RECURSIVE updateLoop(_, _, _, _, _, _)
updateLoop(l, current, st, ups, killer, victim) ==
  IF current = Null THEN [layer |-> l, objects |-> st, updates |-> ups]
  ELSE LET obj == l.node[current].obj
       IN  IF st[obj] # "destroyed"
           THEN updateLoop(l, l.node[current].next,
                           IF obj = killer /\ st[victim] = "live"
                           THEN unregisterObject(st, victim) ELSE st,
                           [ups EXCEPT ![obj] = @ + 1], killer, victim)
           ELSE LET prev == l.node[current].prev
                    l2 == removeNode(l, current)
                    c2 == IF prev # Null THEN prev ELSE l2.first
                IN  IF c2 = Null
                    THEN [layer |-> l2, objects |-> st, updates |-> ups]
                    ELSE updateLoop(l2, l2.node[c2].next, st, ups,
                                    killer, victim)

(***************************************************************************)
(* item.js : Usable, and npc.js : NPC.setBusyFor.  A Usable is             *)
(* [remainingUses, minutesPerUse, isInUse, itemLive] (itemLive: the id of  *)
(* its item is not null) with what it has sent: `used` and `usedUp` count  *)
(* the USED and USED_UP signals, and `queued` the completion callbacks     *)
(* that are waiting as microtasks.  An NPC is [busy, until, forUse]: busy  *)
(* is "no" (busyMetadata is null), "waiting" (setBusyFor awaits the        *)
(* Clock) or "resolved" (the Clock has resolved the promise and the rest   *)
(* of setBusyFor has not run yet); forUse tells whether use() made the     *)
(* setBusyFor call.                                                        *)
(***************************************************************************)
\* new Usable({numUses, minutesPerUse}) on a registered item: the Usable
\* and whether the constructor threw.
NewUsable(numUses, minutesPerUse) ==
  [usable |-> [remainingUses |-> numUses, minutesPerUse |-> minutesPerUse,
               isInUse |-> FALSE, itemLive |-> TRUE,
               used |-> 0, usedUp |-> 0, queued |-> 0],
   status |-> IF numUses <= 0 \/ minutesPerUse < 0 THEN Threw ELSE Ok]

\* An NPC that is not busy.
FreeNpc == [busy |-> "no", until |-> 0, forUse |-> FALSE]

\* NPC.isBusy()
isBusy(n) == n.busy # "no"

\* Usable.canUse(npc)
canUse(u, n) ==
  ~u.isInUse /\ ~isBusy(n) /\ u.itemLive /\ u.remainingUses > 0

\* Usable.gameMinutesToUse(npc)
gameMinutesToUse(u, n) == u.minutesPerUse

\* The completion callback of use(): USED is sent to onUsed, and USED_UP
\* to onUsedUp, which despawns the item.
useCallback(u) ==
  LET u1 == [u EXCEPT !.remainingUses = @ - 1, !.isInUse = FALSE,
                      !.used = @ + 1]
  IN  IF u1.remainingUses <= 0
      THEN [u1 EXCEPT !.usedUp = @ + 1, !.itemLive = FALSE]
      ELSE u1

\* NPC.setBusyFor(gameMinutes, description) at time t, up to its await:
\* the NPC afterwards and whether the call threw (a rejected promise).
setBusyFor(n, gameMinutes, t, forUse) ==
  IF isBusy(n) THEN [npc |-> n, status |-> Threw]
  ELSE IF gameMinutes <= 0 THEN [npc |-> n, status |-> Ok]
  ELSE [npc |-> [busy |-> "waiting", until |-> t + gameMinutes,
                 forUse |-> forUse],
        status |-> Ok]

\* A use() that does not set isInUse.
useNotInUse(u, n, t) ==
  IF ~canUse(u, n) THEN [usable |-> u, npc |-> n, status |-> Threw]
  ELSE IF gameMinutesToUse(u, n) <= 0
  THEN [usable |-> useCallback(u), npc |-> n, status |-> Ok]
  ELSE [usable |-> u,
        npc |-> setBusyFor(n, gameMinutesToUse(u, n), t, TRUE).npc,
        status |-> Ok]

\* Usable.use(npc) at time t, up to the promise it returns: the Usable
\* and the NPC afterwards and whether the call threw.
use(u, n, t) ==
  IF ~canUse(u, n) THEN [usable |-> u, npc |-> n, status |-> Threw]
  ELSE IF gameMinutesToUse(u, n) <= 0
  THEN [usable |-> useCallback(u), npc |-> n, status |-> Ok]
  ELSE [usable |-> [u EXCEPT !.isInUse = TRUE],
        npc |-> setBusyFor(n, gameMinutesToUse(u, n), t, TRUE).npc,
        status |-> Ok]

\* Clock.update reaches the time an NPC waits for: the promise of
\* Clock.waitFor is resolved.
resolveAt(n, t) ==
  IF n.busy = "waiting" /\ n.until <= t THEN [n EXCEPT !.busy = "resolved"]
  ELSE n

\* The rest of setBusyFor after its await: busyMetadata = null.
unbusy(n) == [n EXCEPT !.busy = "no", !.forUse = FALSE]

(***************************************************************************)
(* The sequence builder : SequenceBuilder.  An instruction is [keyword,    *)
(* type, num, den]: `type` names the class of a spawn or the function of a *)
(* call, and num / den is the delay of a wait, kept as a fraction because  *)
(* over() divides the interval.  A builder is [committedSequence,          *)
(* uncommittedSequence].                                                   *)
(***************************************************************************)
\* {keyword: 'wait', delay}
WaitInstruction(num, den) ==
  [keyword |-> "wait", type |-> "", num |-> num, den |-> den]

\* {keyword: 'spawn', type, args}
SpawnInstruction(type) ==
  [keyword |-> "spawn", type |-> type, num |-> 0, den |-> 1]

\* {keyword: 'call', func, args}
CallInstruction(func) ==
  [keyword |-> "call", type |-> func, num |-> 0, den |-> 1]

\* new SequenceBuilder()
NewBuilder == [committedSequence |-> << >>, uncommittedSequence |-> << >>]

\* new Array(number).fill(instruction)
Fill(number, instruction) == [i \in 1..number |-> instruction]

\* SequenceBuilder.wait(delay): the builder afterwards and whether the
\* call threw.
wait(b, delay) ==
  IF ~(delay >= 0) THEN [builder |-> b, status |-> Threw]
  ELSE [builder |-> [b EXCEPT !.committedSequence =
                       Append(@, WaitInstruction(delay, 1))],
        status |-> Ok]

\* SequenceBuilder.spawn(type, number)
spawn(b, type, number) ==
  IF ~(number > 0) THEN [builder |-> b, status |-> Threw]
  ELSE [builder |-> [b EXCEPT !.uncommittedSequence =
                       @ \o Fill(number, SpawnInstruction(type))],
        status |-> Ok]

\* SequenceBuilder.call(func, times)
call(b, func, times) ==
  IF ~(times > 0) THEN [builder |-> b, status |-> Threw]
  ELSE [builder |-> [b EXCEPT !.uncommittedSequence =
                       @ \o Fill(times, CallInstruction(func))],
        status |-> Ok]

\* SequenceBuilder.immediately(): the uncommitted sequence is left as it
\* is.
immediately(b) ==
  [builder |-> [b EXCEPT !.committedSequence =
                  @ \o b.uncommittedSequence],
   status |-> Ok]

\* The loop of over() and spaced(): the instructions of u with a wait
\* before each but the first; Delay(i) is the delay after u[i].
Weave(u, Delay(_)) ==
  [k \in 1..(2 * Len(u) - 1) |->
     IF k % 2 = 1 THEN u[(k + 1) \div 2]
     ELSE Delay(k \div 2)]

\* SequenceBuilder.over(interval, integerize).  With nothing uncommitted,
\* new Array(-1) throws a RangeError.
over(b, interval, integerize) ==
  LET u == b.uncommittedSequence
      nDelays == Len(u) - 1
      Delay(i) ==
        IF integerize
        THEN WaitInstruction((interval * i) \div nDelays
                               - (interval * (i - 1)) \div nDelays, 1)
        ELSE WaitInstruction(interval, nDelays)
  IN  IF ~(interval >= 0) \/ nDelays < 0
      THEN [builder |-> b, status |-> Threw]
      ELSE [builder |-> [committedSequence |->
                           b.committedSequence \o Weave(u, Delay),
                         uncommittedSequence |-> << >>],
            status |-> Ok]

\* SequenceBuilder.spaced(interval)
spaced(b, interval) ==
  LET u == b.uncommittedSequence
      Delay(i) == WaitInstruction(interval, 1)
  IN  IF ~(interval >= 0) THEN [builder |-> b, status |-> Threw]
      ELSE [builder |-> [committedSequence |->
                           b.committedSequence
                             \o (IF u = << >> THEN << >>
                                 ELSE Weave(u, Delay)),
                         uncommittedSequence |-> << >>],
            status |-> Ok]

\* SequenceBuilder.build(): the instructions of the Sequence.
build(b) == b.committedSequence

(***************************************************************************)
(* State.                                                                  *)
(***************************************************************************)
VARIABLES
  list,      \* a stand-alone LinkedList of numbers
  listOp,    \* the last operation on `list`, its inputs and its results
  clock,     \* the Clock singleton
  cb,        \* the callback functions handed to the Clock
  fired,     \* the callbacks invoked by the last Clock operation, in order
  clockOp,   \* the last Clock operation, its inputs and its outcome
  var,       \* a Variable
  mods,      \* the modifiers of `var`, by modifier id
  varOp,     \* the last operation on `var`, its inputs and its results
  furnace,   \* a FurnaceVariable (Hunger)
  furnaceOp, \* the last operation on `furnace` and its results
  heap,      \* a stand-alone Minheap
  heapOp,    \* the last operation on `heap`, its inputs and its results
  manual,    \* a ManualModifier
  manualOp,  \* the last assignment to the progress of `manual`
  monitor,   \* a MonitoringModifier over `var` and `furnace`
  monitorOp, \* the last call on `monitor` and its result
  functional,   \* a FunctionalModifier
  functionalOp, \* the last call that made a FunctionalModifier
  runner,    \* a run of the test runner over one suite
  mood,         \* a second Variable (NPC.mood, which monitors the Hunger)
  moodOp,       \* the last call on `mood` and its result
  layer,        \* a layer of the Controller, a LinkedList of game objects
  objects,      \* what the Controller has done with each game object
  ctrlOp,       \* the last call on the Controller and what it did
  usable,       \* a Usable interface and its item
  npcs,         \* the NPCs: whether each is busy, and until when
  usableOp,     \* the last call of use() and its outcome
  builder,      \* a SequenceBuilder
  builderOp     \* the last call on `builder`, and what has been queued on it

listVars == <<list, listOp>>
clockVars == <<clock, cb, fired, clockOp>>
varVars == <<var, mods, varOp>>
furnaceVars == <<furnace, furnaceOp>>
heapVars == <<heap, heapOp>>
manualVars == <<manual, manualOp>>
monitorVars == <<monitor, monitorOp>>
functionalVars == <<functional, functionalOp>>
runnerVars == <<runner>>
\* The variables of the components added after those.
moodVars == <<mood, moodOp>>
ctrlVars == <<layer, objects, ctrlOp>>
usableVars == <<usable, npcs, usableOp>>
builderVars == <<builder, builderOp>>
\* The variables added last but those of one component.
moodRest == <<ctrlVars, usableVars, builderVars>>
ctrlRest == <<moodVars, usableVars, builderVars>>
usableRest == <<moodVars, ctrlVars, builderVars>>
builderRest == <<moodVars, ctrlVars, usableVars>>
lastVars == <<moodVars, ctrlVars, usableVars, builderVars>>
\* The variables of the components added last.
laterVars == <<functionalVars, runnerVars, lastVars>>
\* The variables of the components added to the model after the first four.
extraVars == <<heapVars, manualVars, monitorVars, functionalVars,
               runnerVars, lastVars>>
vars == <<list, listOp, clock, cb, fired, clockOp, var, mods, varOp,
          furnace, furnaceOp, heap, heapOp, manual, manualOp, monitor,
          monitorOp, functional, functionalOp, runner, mood, moodOp, layer,
          objects, ctrlOp, usable, npcs, usableOp, builder, builderOp>>

(***************************************************************************)
(* The stand-alone linked list and its operations.                         *)
(***************************************************************************)
Objs == 1..MaxObj

NoOp == [op |-> "new", before |-> << >>, keep |-> {}, arg |-> Null,
         yielded |-> << >>, ret |-> FALSE]

ListStart ==
  /\ list = EmptyList
  /\ listOp = NoOp

ListPush ==
  \E x \in Objs :
    /\ list.count < MaxLen
    /\ list' = Collect(push(list, x))
    /\ listOp' = [NoOp EXCEPT !.op = "push", !.before = toArray(list),
                              !.arg = x]
    /\ UNCHANGED <<extraVars, clockVars, varVars, furnaceVars>>

ListPrepend ==
  \E x \in Objs :
    /\ list.count < MaxLen
    /\ list' = Collect(prepend(list, x))
    /\ listOp' = [NoOp EXCEPT !.op = "prepend", !.before = toArray(list),
                              !.arg = x]
    /\ UNCHANGED <<extraVars, clockVars, varVars, furnaceVars>>

ListRemove ==
  \E x \in Objs :
    LET r == remove(list, x)
    IN  /\ list' = Collect(r.list)
        /\ listOp' = [NoOp EXCEPT !.op = "remove", !.before = toArray(list),
                                  !.arg = x, !.ret = r.ret]
        /\ UNCHANGED <<extraVars, clockVars, varVars, furnaceVars>>

ListClear ==
  /\ list' = Collect(clear(list))
  /\ listOp' = [NoOp EXCEPT !.op = "clear", !.before = toArray(list)]
  /\ UNCHANGED <<extraVars, clockVars, varVars, furnaceVars>>

\* for (const x of list.filterIterate(p)) {...} with a predicate that
\* never throws, run to the end.
ListFilterIterate ==
  \E Keep \in SUBSET Objs :
    LET r == filterIterate(list, Keep, {})
    IN  /\ list' = Collect(r.list)
        /\ listOp' = [NoOp EXCEPT !.op = "filterIterate",
                                  !.before = toArray(list), !.keep = Keep,
                                  !.yielded = r.yielded]
        /\ UNCHANGED <<extraVars, clockVars, varVars, furnaceVars>>

ListNext ==
  \/ ListPush
  \/ ListPrepend
  \/ ListRemove
  \/ ListClear
  \/ ListFilterIterate

(***************************************************************************)
(* The Clock and its operations.                                           *)
(***************************************************************************)
NoClockOp == [op |-> "new", cb |-> Null, time |-> 0, nowBefore |-> 0,
              queuedBefore |-> 0, status |-> Ok]

ClockStart ==
  /\ clock = NewClock
  /\ cb = [c \in CbIds |-> NoCallback]
  /\ fired = << >>
  /\ clockOp = NoClockOp

\* The world the next Clock operation starts from.
World == [clock |-> clock, cb |-> cb, fired |-> << >>, status |-> Ok]

\* The callbacks not created yet; a new one takes the smallest id.
Unused == {c \in CbIds : cb[c].kind = "none"}
Fresh == CHOOSE c \in Unused : \A d \in Unused : c <= d

\* Times a caller passes to schedule / waitUntil.
Times == 0..(MaxMinutes + 1)
\* Minutes a caller passes to Clock.after / Clock.waitFor.
Offsets == 0..1

Commit(w, op) ==
  /\ clock' = w.clock
  /\ cb' = w.cb
  /\ fired' = w.fired
  /\ clockOp' = [op EXCEPT !.nowBefore = clock.elapsedGameMinutes,
                           !.queuedBefore = Len(clock.callbacks),
                           !.status = w.status]

\* Clock.schedule(callback, time) with a callback that only runs.
ClockSchedule ==
  \E time \in Times \cup {NEVER} :
    /\ Unused # {}
    /\ LET c == Fresh
           w == [World EXCEPT !.cb[c].kind = "plain"]
       IN  Commit(schedule(w, c, time),
                  [NoClockOp EXCEPT !.op = "schedule", !.cb = c,
                                    !.time = time])
    /\ UNCHANGED <<extraVars, listVars, varVars, furnaceVars>>

\* Clock.schedule(callback, time) with a callback that, when it runs,
\* schedules a further callback for Clock.after(offset).
ClockScheduleChain ==
  \E time \in Times, offset \in Offsets :
    /\ Cardinality(Unused) >= 2
    /\ LET c == Fresh
           d == CHOOSE x \in Unused \ {c} : \A y \in Unused \ {c} : x <= y
           w == [World EXCEPT !.cb[c].kind = "chain", !.cb[c].child = d,
                              !.cb[c].offset = offset, !.cb[d].kind = "plain"]
       IN  Commit(schedule(w, c, time),
                  [NoClockOp EXCEPT !.op = "schedule", !.cb = c,
                                    !.time = time])
    /\ UNCHANGED <<extraVars, listVars, varVars, furnaceVars>>

\* Clock.waitUntil(time)
ClockWaitUntil ==
  \E time \in Times \cup {NEVER} :
    /\ Unused # {}
    /\ LET c == Fresh
           w == [World EXCEPT !.cb[c].kind = "resolve"]
       IN  Commit(waitUntil(w, c, time),
                  [NoClockOp EXCEPT !.op = "waitUntil", !.cb = c,
                                    !.time = time])
    /\ UNCHANGED <<extraVars, listVars, varVars, furnaceVars>>

\* Clock.waitFor(minutes)
ClockWaitFor ==
  \E minutes \in Offsets \cup {NEVER} :
    /\ Unused # {}
    /\ LET c == Fresh
           w == [World EXCEPT !.cb[c].kind = "resolve"]
       IN  Commit(waitFor(w, c, minutes),
                  [NoClockOp EXCEPT !.op = "waitFor", !.cb = c,
                                    !.time = minutes])
    /\ UNCHANGED <<extraVars, listVars, varVars, furnaceVars>>

\* Clock.update(delta), called by the game loop with the milliseconds
\* since the last frame.
ClockUpdateStep ==
  \E minutes \in 0..MaxMinutes :
    /\ clock.elapsedGameMinutes + minutes <= MaxMinutes
    /\ Commit(update(World, minutes * realMillisecondsPerGameMinute),
              [NoClockOp EXCEPT !.op = "update", !.time = minutes])

ClockUpdate ==
  /\ ClockUpdateStep
  /\ UNCHANGED <<extraVars, listVars, varVars, furnaceVars>>

ClockNext ==
  \/ ClockSchedule
  \/ ClockScheduleChain
  \/ ClockWaitUntil
  \/ ClockWaitFor
  \/ ClockUpdate

\* Clock.schedule(callback, time) with a callback that, when it runs, calls
\* Clock.instance.update itself.
ClockScheduleAdvance ==
  \E time \in Times, minutes \in Offsets :
    /\ Unused # {}
    /\ LET c == Fresh
           w == [World EXCEPT !.cb[c].kind = "advance",
                              !.cb[c].offset = minutes]
       IN  Commit(schedule(w, c, time),
                  [NoClockOp EXCEPT !.op = "schedule", !.cb = c,
                                    !.time = time])
    /\ UNCHANGED <<extraVars, listVars, varVars, furnaceVars>>

\* The Clock with callbacks that advance it.
ReentrantNext ==
  \/ ClockSchedule
  \/ ClockScheduleAdvance
  \/ ClockUpdate

(***************************************************************************)
(* The Variable and its operations.                                        *)
(***************************************************************************)
ModIds == 1..MaxLen

\* The arguments the model constructs a Variable with (min < max).
VarBases == {0}
VarMins == {-1}
VarMaxs == {2}
\* The amounts and durations the model creates FixedModifiers with:
\* a duration in minutes, null, or the default (Clock.NEVER).
Amounts == {-2, 3}
Durations == {1, JsNull, NEVER}

NoVarOp == [op |-> "new", status |-> Ok, value |-> JsNull,
            recomputed |-> FALSE, before |-> << >>]

VarStart ==
  /\ \E b \in VarBases, lo \in VarMins, hi \in VarMaxs :
       /\ lo < hi
       /\ var = NewVariable(b, lo, hi)
  /\ mods = [m \in ModIds |-> NoModifier]
  /\ varOp = NoVarOp

\* The modifier ids held by a list of modifiers.
Held(l) == {toArray(l)[i] : i \in 1..Len(toArray(l))}

\* The modifiers of the collection, in list order.
Modifiers(l, ms) == [i \in 1..Len(toArray(l)) |-> ms[toArray(l)[i]]]

\* The state an operation leaves: modifiers no longer in the collection
\* are garbage, and which id names a modifier cannot be observed, so the
\* modifiers are renumbered in list order.
Settle(v, ms, op) ==
  LET l == Collect(v.modifiers)
      arr == toArray(l)
  IN  /\ var' = [v EXCEPT !.modifiers =
                   [l EXCEPT !.node = [k \in NodeIds |->
                                         IF l.node[k].used
                                         THEN [l.node[k] EXCEPT !.obj = k]
                                         ELSE FreeNode]]]
      /\ mods' = [i \in ModIds |->
                    IF i <= Len(arr) THEN ms[arr[i]] ELSE NoModifier]
      /\ varOp' = op

\* var.addModifier(new FixedModifier(amount, duration))
VarAddModifier ==
  \E amount \in Amounts, duration \in Durations :
    /\ var.modifiers.count < MaxMods
    /\ LET m == CHOOSE x \in ModIds \ Held(var.modifiers) :
                  \A y \in ModIds \ Held(var.modifiers) : x <= y
       IN  Settle(addModifier(var, m),
                  [mods EXCEPT ![m] =
                     FixedModifier(amount, duration,
                                   clock.elapsedGameMinutes)],
                  NoVarOp)
    /\ UNCHANGED <<extraVars, listVars, clockVars, furnaceVars>>

\* var.removeModifier(m), for a modifier in the collection or not.
VarRemoveModifier ==
  \E m \in ModIds :
    /\ m <= var.modifiers.count + 1
    /\ Settle(removeModifier(var, m), mods, NoVarOp)
    /\ UNCHANGED <<extraVars, listVars, clockVars, furnaceVars>>

\* var.clearModifiers()
VarClearModifiers ==
  /\ Settle(clearModifiers(var), mods, NoVarOp)
  /\ UNCHANGED <<extraVars, listVars, clockVars, furnaceVars>>

\* var.getValue()
VarGetValue ==
  LET r == getValue(var, mods, clock.elapsedGameMinutes)
  IN  /\ Settle(r.var, mods,
                [op |-> "getValue", status |-> r.status,
                 value |-> IF r.status = Ok THEN r.ret ELSE JsNull,
                 recomputed |-> r.recomputed,
                 before |-> Modifiers(var.modifiers, mods)])
      /\ UNCHANGED <<extraVars, listVars, clockVars, furnaceVars>>

\* The game loop advances the clock; no callbacks are involved.
VarTick ==
  /\ ClockUpdateStep
  /\ varOp' = NoVarOp
  /\ UNCHANGED <<extraVars, var, mods, listVars, furnaceVars>>

VarNext ==
  \/ VarAddModifier
  \/ VarRemoveModifier
  \/ VarClearModifiers
  \/ VarGetValue
  \/ VarTick

(***************************************************************************)
(* The FurnaceVariable (Hunger) and its operations.                        *)
(***************************************************************************)
\* Hunger.baseValue, Hunger.min, Hunger.max
HungerBaseValue == 100
HungerMin == 0
HungerMax == 100

\* The arguments the model calls addFuel with.  Edible.onUsed passes a
\* negative quantity; weight null is the default.
FuelQuantities == {-60, 0, 40}
FuelDurations == {0, 1, 2}
FuelWeights == {JsNull, 0}

NoFurnaceOp == [op |-> "new", status |-> Ok, value |-> JsNull]

FurnaceStart ==
  /\ furnace = NewFurnace(HungerBaseValue, HungerMin, HungerMax, 0)
  /\ furnaceOp = NoFurnaceOp

\* furnace.addFuel(quantity, duration, description, weight)
FurnaceAddFuel ==
  \E quantity \in FuelQuantities, duration \in FuelDurations,
     weight \in FuelWeights :
    /\ Len(furnace.modifiers) < MaxFuels
    /\ LET r == addFuel(furnace, quantity, duration, weight)
       IN  /\ furnace' = r.var
           /\ furnaceOp' = [NoFurnaceOp EXCEPT !.op = "addFuel",
                                               !.status = r.status]
    /\ UNCHANGED <<extraVars, listVars, clockVars, varVars>>

\* furnace.getValue()
FurnaceGetValue ==
  LET r == furnaceGetValue(furnace, clock.elapsedGameMinutes)
  IN  /\ furnace' = r.var
      /\ furnaceOp' = [NoFurnaceOp EXCEPT !.op = "getValue",
                                          !.value = r.ret]
      /\ UNCHANGED <<extraVars, listVars, clockVars, varVars>>

\* The game loop advances the clock; no callbacks are involved.
FurnaceTick ==
  /\ ClockUpdateStep
  /\ furnaceOp' = NoFurnaceOp
  /\ UNCHANGED <<extraVars, furnace, listVars, varVars>>

FurnaceNext ==
  \/ FurnaceAddFuel
  \/ FurnaceGetValue
  \/ FurnaceTick

(***************************************************************************)
(* The Variable with a record of the calls made on it.  Besides what the   *)
(* last call did, varOp keeps what has happened since the latest getValue  *)
(* that returned at the current clock time:                                *)
(*   since             _lastRecomputed as the last getValue found it;      *)
(*   track = "stale"   no getValue has returned at the current time;       *)
(*           "none"    nothing has been called since it returned;          *)
(*           "added"   one addModifier(m) has been called since;           *)
(*           "undone"  addModifier(m), then removeModifier(m);             *)
(*           "changed" any other modifier calls;                           *)
(* and `last`, the value that getValue returned (JsNull when stale).       *)
(* A run constructs either the Variable or the FurnaceVariable; the one    *)
(* that is not constructed has op = "none" and is never called.            *)
(***************************************************************************)
NoMemoOp == [op |-> "new", status |-> Ok, value |-> JsNull,
             recomputed |-> FALSE, before |-> << >>, present |-> FALSE,
             track |-> "stale", last |-> JsNull, changed |-> FALSE,
             since |-> NEVER]

\* The record of the calls on a FurnaceVariable: `consecutive` tells that
\* the call before this getValue was a getValue too, at the same clock
\* time, and `last` is what that one returned.
NoFurnaceMemoOp == [op |-> "new", status |-> Ok, value |-> JsNull,
                    consecutive |-> FALSE, last |-> JsNull,
                    changed |-> FALSE]

\* The run constructs a Variable, or it constructs a Hunger.
MemoStart ==
  /\ \E b \in VarBases, lo \in VarMins, hi \in VarMaxs :
       /\ lo < hi
       /\ var = NewVariable(b, lo, hi)
  /\ mods = [m \in ModIds |-> NoModifier]
  /\ furnace = NewFurnace(HungerBaseValue, HungerMin, HungerMax, 0)
  /\ \/ /\ varOp = NoMemoOp
        /\ furnaceOp = [NoFurnaceMemoOp EXCEPT !.op = "none"]
     \/ /\ varOp = [NoMemoOp EXCEPT !.op = "none"]
        /\ furnaceOp = NoFurnaceMemoOp

\* The amounts and durations the recorded Variable is given modifiers
\* with: a duration in minutes, or null.
MemoAmounts == {-2}
MemoDurations == {1, JsNull}

\* var.addModifier(new FixedModifier(amount, duration))
MemoAddModifier ==
  \E amount \in MemoAmounts, duration \in MemoDurations :
    /\ varOp.op # "none"
    /\ var.modifiers.count < MaxMods
    /\ LET m == CHOOSE x \in ModIds \ Held(var.modifiers) :
                  \A y \in ModIds \ Held(var.modifiers) : x <= y
       IN  Settle(addModifier(var, m),
                  [mods EXCEPT ![m] =
                     FixedModifier(amount, duration,
                                   clock.elapsedGameMinutes)],
                  [NoMemoOp EXCEPT
                     !.op = "addModifier",
                     !.track = CASE varOp.track = "stale" -> "stale"
                                 [] varOp.track = "none" -> "added"
                                 [] OTHER -> "changed",
                     !.last = varOp.last])
    /\ UNCHANGED <<extraVars, listVars, clockVars, furnaceVars>>

\* var.removeModifier(m), for a modifier in the collection or not.  The
\* modifier added last is the one at the end of the collection.
MemoRemoveModifier ==
  \E m \in ModIds :
    /\ varOp.op # "none"
    /\ m <= var.modifiers.count + 1
    /\ Settle(removeModifier(var, m), mods,
              [NoMemoOp EXCEPT
                 !.op = "removeModifier",
                 !.present = (m \in Held(var.modifiers)),
                 !.track = CASE varOp.track = "stale" -> "stale"
                             [] /\ varOp.track = "added"
                                /\ m = var.modifiers.count -> "undone"
                             [] OTHER -> "changed",
                 !.last = varOp.last])
    /\ UNCHANGED <<extraVars, listVars, clockVars, furnaceVars>>

\* var.clearModifiers()
MemoClearModifiers ==
  /\ varOp.op # "none"
  /\ Settle(clearModifiers(var), mods,
            [NoMemoOp EXCEPT
               !.op = "clearModifiers",
               !.track = IF varOp.track = "stale" THEN "stale"
                         ELSE "changed",
               !.last = varOp.last])
  /\ UNCHANGED <<extraVars, listVars, clockVars, furnaceVars>>

\* var.getValue().  The record keeps what preceded the call (track, last)
\* and whether the call changed the variable or its modifiers.
MemoGetValue ==
  LET r == getValue(var, mods, clock.elapsedGameMinutes)
  IN  /\ varOp.op # "none"
      /\ Settle(r.var, mods,
                [op |-> "getValue", status |-> r.status,
                 value |-> IF r.status = Ok THEN r.ret ELSE JsNull,
                 recomputed |-> r.recomputed,
                 before |-> Modifiers(var.modifiers, mods),
                 present |-> FALSE,
                 track |-> IF varOp.op = "getValue"
                           THEN (IF varOp.status = Ok THEN "none"
                                 ELSE "stale")
                           ELSE varOp.track,
                 last |-> IF varOp.op = "getValue"
                          THEN varOp.value ELSE varOp.last,
                 changed |-> (var' # var \/ mods' # mods),
                 since |-> var.lastRecomputed])
      /\ UNCHANGED <<extraVars, listVars, clockVars, furnaceVars>>

\* furnace.addFuel(quantity, duration, description, weight)
MemoAddFuel ==
  \E quantity \in FuelQuantities, duration \in FuelDurations,
     weight \in FuelWeights :
    /\ furnaceOp.op # "none"
    /\ Len(furnace.modifiers) < MaxFuels
    /\ LET r == addFuel(furnace, quantity, duration, weight)
       IN  /\ furnace' = r.var
           /\ furnaceOp' = [NoFurnaceMemoOp EXCEPT !.op = "addFuel",
                                                   !.status = r.status]
    /\ UNCHANGED <<extraVars, listVars, clockVars, varVars>>

\* furnace.getValue()
MemoFurnaceGetValue ==
  LET r == furnaceGetValue(furnace, clock.elapsedGameMinutes)
  IN  /\ furnaceOp.op # "none"
      /\ furnace' = r.var
      /\ furnaceOp' = [NoFurnaceMemoOp EXCEPT
                         !.op = "getValue",
                         !.value = r.ret,
                         !.consecutive = (furnaceOp.op = "getValue"),
                         !.last = furnaceOp.value,
                         !.changed = (r.var # furnace)]
      /\ UNCHANGED <<extraVars, listVars, clockVars, varVars>>

\* The game loop advances the clock; no callbacks are involved.
MemoTick ==
  /\ ClockUpdateStep
  /\ varOp' = IF varOp.op = "none" THEN varOp ELSE NoMemoOp
  /\ furnaceOp' = IF furnaceOp.op = "none" THEN furnaceOp
                  ELSE NoFurnaceMemoOp
  /\ UNCHANGED <<extraVars, var, mods, furnace, listVars>>

MemoNext ==
  \/ MemoAddModifier
  \/ MemoRemoveModifier
  \/ MemoClearModifiers
  \/ MemoGetValue
  \/ MemoAddFuel
  \/ MemoFurnaceGetValue
  \/ MemoTick

(***************************************************************************)
(* The FurnaceVariable with a record of the calls made on it.  Besides     *)
(* what the last call did, furnaceOp keeps                                 *)
(*   adds   how many addFuel calls have been made (2 stands for more),     *)
(*   only   the arguments and the time of the call, while it is the only   *)
(*          one,                                                           *)
(*   fresh  whether getValue has been called and no addFuel since,         *)
(* and after a getValue, `before`, the queue the call found, `since`, the  *)
(* time of the recomputation before it, `at`, the time of the call, and    *)
(* `clean`, what `fresh` was when the call was made.                       *)
(***************************************************************************)
NoFuelCall == [quantity |-> 0, duration |-> 0, at |-> NEVER]

NoBurnOp == [op |-> "new", status |-> Ok, value |-> JsNull,
             quantity |-> 0, duration |-> 0, before |-> << >>,
             since |-> 0, at |-> 0, clean |-> FALSE,
             adds |-> 0, only |-> NoFuelCall, fresh |-> FALSE]

\* The record of a call: what is kept from the record before it.
BurnOp(op) ==
  [NoBurnOp EXCEPT !.op = op, !.adds = furnaceOp.adds,
                   !.only = furnaceOp.only, !.fresh = furnaceOp.fresh]

BurnStart ==
  /\ furnace = NewFurnace(HungerBaseValue, HungerMin, HungerMax, 0)
  /\ furnaceOp = NoBurnOp

\* furnace.addFuel(quantity, duration, description, weight)
BurnAddFuel ==
  \E quantity \in FuelQuantities, duration \in FuelDurations,
     weight \in FuelWeights :
    /\ Len(furnace.modifiers) < MaxFuels
    /\ LET r == addFuel(furnace, quantity, duration, weight)
       IN  /\ furnace' = r.var
           /\ furnaceOp' =
                [BurnOp("addFuel") EXCEPT
                   !.status = r.status,
                   !.quantity = quantity,
                   !.duration = duration,
                   !.before = furnace.modifiers,
                   !.adds = IF furnaceOp.adds = 0 THEN 1 ELSE 2,
                   !.only = IF furnaceOp.adds = 0
                            THEN [quantity |-> quantity,
                                  duration |-> duration,
                                  at |-> clock.elapsedGameMinutes]
                            ELSE NoFuelCall,
                   !.fresh = FALSE]
    /\ UNCHANGED <<extraVars, listVars, clockVars, varVars>>

\* furnace.getValue()
BurnGetValue ==
  LET r == furnaceGetValue(furnace, clock.elapsedGameMinutes)
  IN  /\ furnace' = r.var
      /\ furnaceOp' = [BurnOp("getValue") EXCEPT
                         !.value = r.ret,
                         !.before = furnace.modifiers,
                         !.since = furnace.lastRecomputed,
                         !.at = clock.elapsedGameMinutes,
                         !.clean = furnaceOp.fresh,
                         !.fresh = TRUE]
      /\ UNCHANGED <<extraVars, listVars, clockVars, varVars>>

\* The game loop advances the clock; no callbacks are involved.
BurnTick ==
  /\ ClockUpdateStep
  /\ furnaceOp' = BurnOp("new")
  /\ UNCHANGED <<extraVars, furnace, listVars, varVars>>

BurnNext ==
  \/ BurnAddFuel
  \/ BurnGetValue
  \/ BurnTick

(***************************************************************************)
(* Construction of variables.  varOp and furnaceOp keep the class and the  *)
(* arguments of the last constructor call and whether it threw; `var` and  *)
(* `furnace` are the last objects whose construction succeeded.            *)
(***************************************************************************)
VariableClasses == {"Variable", "Temperature"}
FurnaceClasses == {"FurnaceVariable", "Hunger"}
\* The arguments the model constructs with; null stands for the default.
ArgBases == {JsNull, 50}
ArgMins == {JsNull, -273, 0, 100}
ArgMaxs == {JsNull, -273, 0, 100}

NoConstructOp == [op |-> "none", status |-> Ok, cls |-> "none",
                  min |-> JsNull, max |-> JsNull]

ConstructStart ==
  /\ var = NewVariable(0, -1, 2)
  /\ mods = [m \in ModIds |-> NoModifier]
  /\ varOp = NoConstructOp
  /\ furnace = NewFurnace(HungerBaseValue, HungerMin, HungerMax, 0)
  /\ furnaceOp = NoConstructOp

\* new Variable(...), new Temperature(...)
ConstructVariable ==
  \E cls \in VariableClasses, b \in ArgBases, lo \in ArgMins,
     hi \in ArgMaxs :
    LET r == constructVariable(cls, b, lo, hi, var)
    IN  /\ var' = r.var
        /\ varOp' = [op |-> "new", status |-> r.status, cls |-> cls,
                     min |-> lo, max |-> hi]
        /\ furnaceOp' = NoConstructOp
        /\ UNCHANGED <<extraVars, listVars, clockVars, mods, furnace>>

\* new FurnaceVariable(...), new Hunger(...)
ConstructFurnace ==
  \E cls \in FurnaceClasses, b \in ArgBases, lo \in ArgMins,
     hi \in ArgMaxs :
    LET r == constructFurnace(cls, b, lo, hi, clock.elapsedGameMinutes,
                              furnace)
    IN  /\ furnace' = r.var
        /\ furnaceOp' = [op |-> "new", status |-> r.status, cls |-> cls,
                         min |-> lo, max |-> hi]
        /\ varOp' = NoConstructOp
        /\ UNCHANGED <<extraVars, listVars, clockVars, mods, var>>

ConstructNext ==
  \/ ConstructVariable
  \/ ConstructFurnace

(***************************************************************************)
(* FunctionalModifier.decaying.  functionalOp keeps the arguments of the   *)
(* last call and whether it threw; `functional` is the modifier it         *)
(* returned.                                                               *)
(***************************************************************************)
\* The arguments the model calls decaying with, the values in halves:
\* 0.5, 2 and 8 of either sign, and 0; null is the default.
InitialValues == {-16, -4, -1, 0, 1, 4, 16}
HalfLives == {-1, 0, 1, 2}
InsignificantValues == {JsNull, -16, -4, -1, 0, 1, 4, 16}

NoFunctionalOp == [op |-> "none", status |-> Ok, initialValue |-> 0,
                   halfLife |-> 0, insignificantValue |-> 0]

FunctionalIdle ==
  /\ functional = NoFunctional
  /\ functionalOp = NoFunctionalOp

\* FunctionalModifier.decaying(initialValue, halfLife, description,
\* insignificantValue)
FunctionalDecaying ==
  \E initialValue \in InitialValues, halfLife \in HalfLives,
     insignificantValue \in InsignificantValues :
    LET r == decaying(initialValue, halfLife, insignificantValue,
                      clock.elapsedGameMinutes)
    IN  /\ functional' = r.mod
        /\ functionalOp' = [op |-> "decaying", status |-> r.status,
                            initialValue |-> initialValue,
                            halfLife |-> halfLife,
                            insignificantValue |-> insignificantValue]
        /\ UNCHANGED <<lastVars, heapVars, manualVars, monitorVars, runnerVars,
                       listVars, clockVars, varVars, furnaceVars>>

\* The game loop advances the clock; no callbacks are involved.
FunctionalTick ==
  /\ ClockUpdateStep
  /\ UNCHANGED <<lastVars, heapVars, manualVars, monitorVars, functionalVars,
                 runnerVars, listVars, varVars, furnaceVars>>

FunctionalNext ==
  \/ FunctionalDecaying
  \/ FunctionalTick

(***************************************************************************)
(* The test runner: one run of runSuite, call by call.  Whether a call on  *)
(* the suite throws is up to the suite.                                    *)
(***************************************************************************)
RunnerIdle == runner = [NewRun(0) EXCEPT !.pc = "done"]

RunnerStart == \E tests \in 0..MaxTests : runner = NewRun(tests)

RunnerRest ==
  UNCHANGED <<lastVars, heapVars, manualVars, monitorVars, functionalVars,
              listVars, clockVars, varVars, furnaceVars>>

RunConstructor ==
  /\ runner.pc = "constructor"
  /\ \E threw \in BOOLEAN : runner' = runConstructor(runner, threw)
  /\ RunnerRest

RunSetUp ==
  /\ runner.pc = "setUp"
  /\ \E threw \in BOOLEAN : runner' = runSetUp(runner, threw)
  /\ RunnerRest

RunTest ==
  /\ runner.pc = "test"
  /\ \E threw \in BOOLEAN : runner' = runTest(runner, threw)
  /\ RunnerRest

RunTearDown ==
  /\ runner.pc = "tearDown"
  /\ \E threw \in BOOLEAN : runner' = runTearDown(runner, threw)
  /\ RunnerRest

RunTearDownClass ==
  /\ runner.pc = "tearDownClass"
  /\ \E threw \in BOOLEAN : runner' = runTearDownClass(runner, threw)
  /\ RunnerRest

RunnerNext ==
  \/ RunConstructor
  \/ RunSetUp
  \/ RunTest
  \/ RunTearDown
  \/ RunTearDownClass

(***************************************************************************)
(* The CachedVariable and its operations: `var` is the variable, `mods`    *)
(* its modifiers by id, and varOp keeps the last call, the value it        *)
(* returned, whether it recomputed, and the modifiers it found.            *)
(***************************************************************************)
\* The modifiers the model adds: amounts, expiry times (a minute or never)
\* and recompute policies.
CachedAmounts == {10, 20}
ZeroAfters == {NEVER, 1}
Policies == {RECOMPUTE_NEVER, RECOMPUTE_EACH_UPDATE}

NoCachedOp == [op |-> "new", value |-> JsNull, recomputed |-> FALSE,
               before |-> << >>]

\* new CachedVariable() with the static defaults of SimpleVariable.
CachedStart ==
  /\ var = NewCachedVariable(0, 0, 100)
  /\ mods = [m \in ModIds |-> NoPolicyModifier]
  /\ varOp = NoCachedOp

\* The state an operation leaves: the modifiers are renumbered by their
\* position in the collection, the model's name for a modifier carrying no
\* meaning.
SettleCached(v, ms, op) ==
  LET l == Collect(v.modifiers)
      arr == toArray(l)
  IN  /\ var' = [v EXCEPT !.modifiers =
                   [l EXCEPT !.node = [k \in NodeIds |->
                                         IF l.node[k].used
                                         THEN [l.node[k] EXCEPT !.obj = k]
                                         ELSE FreeNode]]]
      /\ mods' = [i \in ModIds |->
                    IF i <= Len(arr) THEN ms[arr[i]] ELSE NoPolicyModifier]
      /\ varOp' = op

\* var.addModifier(new Modifier(..., zeroAfter, recomputePolicy))
CachedAddModifier ==
  \E amount \in CachedAmounts, zeroAfter \in ZeroAfters,
     recomputePolicy \in Policies :
    /\ var.modifiers.count < MaxMods
    /\ LET m == CHOOSE x \in ModIds \ Held(var.modifiers) :
                  \A y \in ModIds \ Held(var.modifiers) : x <= y
           mod == PolicyModifier(amount, zeroAfter, recomputePolicy)
       IN  SettleCached(cachedAddModifier(var, m, mod),
                        [mods EXCEPT ![m] = mod],
                        [NoCachedOp EXCEPT !.op = "addModifier"])
    /\ UNCHANGED <<extraVars, listVars, clockVars, furnaceVars>>

\* var.removeModifier(m), for a modifier in the collection or not.
CachedRemoveModifier ==
  \E m \in ModIds :
    /\ m <= var.modifiers.count + 1
    /\ SettleCached(cachedRemoveModifier(var, m, mods), mods,
                    [NoCachedOp EXCEPT !.op = "removeModifier"])
    /\ UNCHANGED <<extraVars, listVars, clockVars, furnaceVars>>

\* var.getValue()
CachedGetValue ==
  LET r == cachedGetValue(var, mods, clock.elapsedGameMinutes)
  IN  /\ SettleCached(r.var, mods,
                      [op |-> "getValue", value |-> r.ret,
                       recomputed |-> r.recomputed,
                       before |-> Modifiers(var.modifiers, mods)])
      /\ UNCHANGED <<extraVars, listVars, clockVars, furnaceVars>>

\* The game loop advances the clock; no callbacks are involved.
CachedTick ==
  /\ ClockUpdateStep
  /\ varOp' = NoCachedOp
  /\ UNCHANGED <<extraVars, var, mods, listVars, furnaceVars>>

CachedNext ==
  \/ CachedAddModifier
  \/ CachedRemoveModifier
  \/ CachedGetValue
  \/ CachedTick

(***************************************************************************)
(* The stand-alone Minheap and its operations.  heapOp keeps the elements  *)
(* before the call, and for a run of pops the elements popped so far       *)
(* (`popped`) and the elements the heap held when the run began (`full`).  *)
(***************************************************************************)
\* The weights the model pushes (MinheapSuite pushes 10, 1, 5 and -5).
HeapWeights == {-5, 1, 5}

NoHeapOp == [op |-> "new", status |-> Ok, ret |-> Null, before |-> << >>,
             popped |-> << >>, full |-> << >>]

HeapStart ==
  /\ heap = EmptyHeap
  /\ heapOp = NoHeapOp

\* heap.push(obj, weight)
HeapPush ==
  \E obj \in Objs, weight \in HeapWeights :
    /\ Len(heap) < MaxHeap
    /\ heap' = heapPush(heap, obj, weight)
    /\ heapOp' = [NoHeapOp EXCEPT !.op = "push", !.before = heap]
    /\ UNCHANGED <<laterVars, listVars, clockVars, varVars, furnaceVars,
                   manualVars, monitorVars>>

\* heap.pop()
HeapPop ==
  LET r == Minheap_pop(heap)
      run == IF heapOp.op = "pop" THEN heapOp
             ELSE [heapOp EXCEPT !.popped = << >>, !.full = heap]
  IN  /\ heap' = r.heap
      /\ heapOp' = [op |-> "pop", status |-> r.status, ret |-> r.ret,
                    before |-> heap,
                    popped |-> IF r.status = Ok
                               THEN Append(run.popped,
                                           [obj |-> r.ret,
                                            weight |-> At(heap, 0).weight])
                               ELSE run.popped,
                    full |-> run.full]
      /\ UNCHANGED <<laterVars, listVars, clockVars, varVars, furnaceVars,
                     manualVars, monitorVars>>

\* heap.peek()
HeapPeek ==
  LET r == Minheap_peek(heap)
  IN  /\ heap' = r.heap
      /\ heapOp' = [NoHeapOp EXCEPT !.op = "peek", !.status = r.status,
                                    !.ret = r.ret, !.before = heap]
      /\ UNCHANGED <<laterVars, listVars, clockVars, varVars, furnaceVars,
                     manualVars, monitorVars>>

\* heap.peekWeight()
HeapPeekWeight ==
  LET r == Minheap_peekWeight(heap)
  IN  /\ heap' = r.heap
      /\ heapOp' = [NoHeapOp EXCEPT !.op = "peekWeight", !.status = r.status,
                                    !.ret = r.ret, !.before = heap]
      /\ UNCHANGED <<laterVars, listVars, clockVars, varVars, furnaceVars,
                     manualVars, monitorVars>>

HeapNext ==
  \/ HeapPush
  \/ HeapPop
  \/ HeapPeek
  \/ HeapPeekWeight

(***************************************************************************)
(* A ManualModifier and the assignments to its progress.                   *)
(***************************************************************************)
\* The values assigned to manual.progress.
Progresses == 0..MaxProgress

NoManualOp == [op |-> "new", status |-> Ok, arg |-> 0, before |-> 0]

\* A ManualModifier that is not used.
ManualIdle ==
  /\ manual = ManualModifier(0, 1)
  /\ manualOp = NoManualOp

\* new ManualModifier(t => quantity - t * burnRate, duration)
ManualStart ==
  /\ \E quantity \in FuelQuantities, duration \in FuelDurations :
       manual = ManualModifier(quantity, duration)
  /\ manualOp = NoManualOp

\* manual.progress = value
ManualSetProgress ==
  \E v \in Progresses :
    LET r == setProgress(manual, v)
    IN  /\ manual' = r.mod
        /\ manualOp' = [op |-> "setProgress", status |-> r.status,
                        arg |-> v, before |-> manual.progress]
        /\ UNCHANGED <<laterVars, listVars, clockVars, varVars, furnaceVars,
                       heapVars, monitorVars>>

ManualNext == ManualSetProgress

(***************************************************************************)
(* A MonitoringModifier made by sumOf over the Variable and the Hunger,    *)
(* and the calls on it while its sources change.                           *)
(***************************************************************************)
\* The argument lists of sumOf: one variable or more, each of the two
\* variables of the model at most once.
TermLists ==
  {<<"var">>, <<"furnace">>, <<"var", "furnace">>, <<"furnace", "var">>}

\* The fuels the monitored Hunger is given.
MonitorFuelQuantities == {-60}
MonitorFuelDurations == {2}

NoMonitorOp == [op |-> "new", value |-> JsNull, removable |-> FALSE]

\* A MonitoringModifier that is not used.
MonitorIdle ==
  /\ monitor = NoMonitor
  /\ monitorOp = NoMonitorOp

\* monitor = MonitoringModifier.sumOf(...terms)
MonitorStart ==
  /\ \E terms \in TermLists : monitor = sumOf(terms)
  /\ monitorOp = NoMonitorOp

\* var.addModifier(new FixedModifier(amount, duration))
MonitorAddModifier ==
  \E amount \in MemoAmounts, duration \in MemoDurations :
    /\ var.modifiers.count < MaxMods
    /\ LET m == CHOOSE x \in ModIds \ Held(var.modifiers) :
                  \A y \in ModIds \ Held(var.modifiers) : x <= y
       IN  Settle(addModifier(var, m),
                  [mods EXCEPT ![m] =
                     FixedModifier(amount, duration,
                                   clock.elapsedGameMinutes)],
                  NoVarOp)
    /\ monitorOp' = NoMonitorOp
    /\ UNCHANGED <<laterVars, monitor, listVars, clockVars, furnaceVars,
                   heapVars, manualVars>>

\* var.clearModifiers()
MonitorClearModifiers ==
  /\ Settle(clearModifiers(var), mods, NoVarOp)
  /\ monitorOp' = NoMonitorOp
  /\ UNCHANGED <<laterVars, monitor, listVars, clockVars, furnaceVars,
                 heapVars, manualVars>>

\* furnace.addFuel(quantity, duration)
MonitorAddFuel ==
  \E quantity \in MonitorFuelQuantities, duration \in MonitorFuelDurations :
    /\ Len(furnace.modifiers) < MaxFuels
    /\ furnace' = addFuel(furnace, quantity, duration, JsNull).var
    /\ monitorOp' = NoMonitorOp
    /\ UNCHANGED <<laterVars, monitor, furnaceOp, listVars, clockVars, varVars,
                   heapVars, manualVars>>

\* monitor.value()
MonitorValue ==
  LET r == monitoringValue(monitor, var, mods, furnace,
                           clock.elapsedGameMinutes)
  IN  /\ Settle(r.var, mods, NoVarOp)
      /\ furnace' = r.furnace
      /\ monitorOp' = [NoMonitorOp EXCEPT !.op = "value", !.value = r.ret]
      /\ UNCHANGED <<laterVars, monitor, furnaceOp, listVars, clockVars,
                     heapVars, manualVars>>

\* monitor.canBeRemoved()
MonitorCanBeRemoved ==
  /\ monitorOp' = [NoMonitorOp EXCEPT
                     !.op = "canBeRemoved",
                     !.removable = monitoringCanBeRemoved(monitor)]
  /\ UNCHANGED <<laterVars, monitor, listVars, clockVars, varVars, furnaceVars,
                 heapVars, manualVars>>

\* The game loop advances the clock; no callbacks are involved.
MonitorTick ==
  /\ ClockUpdateStep
  /\ monitorOp' = NoMonitorOp
  /\ UNCHANGED <<laterVars, monitor, listVars, varVars, furnaceVars, heapVars,
                 manualVars>>

MonitorNext ==
  \/ MonitorAddModifier
  \/ MonitorClearModifiers
  \/ MonitorAddFuel
  \/ MonitorValue
  \/ MonitorCanBeRemoved
  \/ MonitorTick

(***************************************************************************)
(* A Variable that monitors the Hunger, made as the NPC constructor makes  *)
(* its mood: new Variable(..., 100) with the modifier                      *)
(* MonitoringModifier.linearMapOnto(hunger, 20, -20, ...).  `monitor` is   *)
(* that modifier and `furnace` the Hunger.  moodOp keeps the last call,    *)
(* the value it returned and whether it recomputed.                        *)
(***************************************************************************)
\* The arguments of linearMapOnto in the NPC constructor.
MoodMins == {20}
MoodMaxs == {-20}

NoMoodOp == [op |-> "new", value |-> JsNull, recomputed |-> FALSE]

\* A mood that is not used.
MoodIdle ==
  /\ mood = NewVariable(0, -Infinity, Infinity)
  /\ moodOp = NoMoodOp

\* this.mood = new Variable("Humör", ..., 100);
\* this.mood.addModifier(MonitoringModifier.linearMapOnto(this.hunger, ...))
MoodStart ==
  /\ \E lo \in MoodMins, hi \in MoodMaxs :
       monitor = linearMapOnto(furnace, lo, hi).mod
  /\ monitorOp = NoMonitorOp
  /\ mood = addModifier(
              constructVariable("Variable", HungerBaseValue, JsNull, JsNull,
                                NewVariable(0, -Infinity, Infinity)).var,
              1)
  /\ moodOp = NoMoodOp

\* mood.getValue()
MoodGetValue ==
  LET r == ownerGetValue(mood, monitor, furnace, clock.elapsedGameMinutes)
  IN  /\ mood' = r.var
      /\ furnace' = r.furnace
      /\ moodOp' = [op |-> "getValue", value |-> r.ret,
                    recomputed |-> r.recomputed]
      /\ UNCHANGED <<monitorVars, furnaceOp, listVars, clockVars, varVars,
                     heapVars, manualVars, functionalVars, runnerVars,
                     moodRest>>

\* hunger.addFuel(quantity, duration, description), as Edible.onUsed calls
\* it.
MoodAddFuel ==
  \E quantity \in MonitorFuelQuantities, duration \in MonitorFuelDurations :
    /\ Len(furnace.modifiers) < MaxFuels
    /\ furnace' = addFuel(furnace, quantity, duration, JsNull).var
    /\ moodOp' = [NoMoodOp EXCEPT !.op = "addFuel"]
    /\ UNCHANGED <<mood, monitorVars, furnaceOp, listVars, clockVars,
                   varVars, heapVars, manualVars, functionalVars,
                   runnerVars, moodRest>>

\* hunger.getValue(), the source queried on its own.
MoodSourceGetValue ==
  /\ furnace' = furnaceGetValue(furnace, clock.elapsedGameMinutes).var
  /\ moodOp' = [NoMoodOp EXCEPT !.op = "sourceGetValue"]
  /\ UNCHANGED <<mood, monitorVars, furnaceOp, listVars, clockVars,
                 varVars, heapVars, manualVars, functionalVars, runnerVars,
                 moodRest>>

\* The game loop advances the clock; no callbacks are involved.
MoodTick ==
  /\ ClockUpdateStep
  /\ moodOp' = NoMoodOp
  /\ UNCHANGED <<mood, monitorVars, furnaceVars, listVars, varVars,
                 heapVars, manualVars, functionalVars, runnerVars, moodRest>>

MoodNext ==
  \/ MoodGetValue
  \/ MoodAddFuel
  \/ MoodSourceGetValue
  \/ MoodTick

(***************************************************************************)
(* Two Variables and the Hunger, and the modifiers a caller has made.  A   *)
(* modifier instance is named by its id, and the caller can pass any       *)
(* instance it has to any Variable.  addFuel makes its ManualModifier      *)
(* itself, so a fuel is an instance no caller has.                         *)
(***************************************************************************)
\* The two Variables of the model.
Owners == {"var", "mood"}

OwnersStart ==
  /\ var = NewVariable(0, -Infinity, Infinity)
  /\ mods = [m \in ModIds |-> FixedModifier(3, JsNull, 0)]
  /\ varOp = NoVarOp
  /\ mood = NewVariable(0, -Infinity, Infinity)
  /\ moodOp = NoMoodOp

\* The Variables after a call that left owner as v.
OwnersCommit(owner, v, op) ==
  /\ var' = IF owner = "var"
            THEN [v EXCEPT !.modifiers = Collect(v.modifiers)] ELSE var
  /\ mood' = IF owner = "mood"
             THEN [v EXCEPT !.modifiers = Collect(v.modifiers)] ELSE mood
  /\ moodOp' = [NoMoodOp EXCEPT !.op = op]
  /\ UNCHANGED <<mods, varOp>>

Owner(owner) == IF owner = "var" THEN var ELSE mood

\* owner.addModifier(m)
OwnersAddModifier ==
  \E owner \in Owners, m \in ModIds :
    /\ Owner(owner).modifiers.count < MaxMods
    /\ OwnersCommit(owner, addModifier(Owner(owner), m), "addModifier")
    /\ UNCHANGED <<furnaceVars, monitorVars, listVars, clockVars, heapVars,
                   manualVars, functionalVars, runnerVars, moodRest>>

\* owner.removeModifier(m)
OwnersRemoveModifier ==
  \E owner \in Owners, m \in ModIds :
    /\ OwnersCommit(owner, removeModifier(Owner(owner), m),
                    "removeModifier")
    /\ UNCHANGED <<furnaceVars, monitorVars, listVars, clockVars, heapVars,
                   manualVars, functionalVars, runnerVars, moodRest>>

\* owner.clearModifiers()
OwnersClearModifiers ==
  \E owner \in Owners :
    /\ OwnersCommit(owner, clearModifiers(Owner(owner)), "clearModifiers")
    /\ UNCHANGED <<furnaceVars, monitorVars, listVars, clockVars, heapVars,
                   manualVars, functionalVars, runnerVars, moodRest>>

\* hunger.addFuel(quantity, duration)
OwnersAddFuel ==
  \E quantity \in MonitorFuelQuantities, duration \in MonitorFuelDurations :
    /\ Len(furnace.modifiers) < MaxFuels
    /\ furnace' = addFuel(furnace, quantity, duration, JsNull).var
    /\ moodOp' = [NoMoodOp EXCEPT !.op = "addFuel"]
    /\ UNCHANGED <<mood, varVars, furnaceOp, monitorVars, listVars,
                   clockVars, heapVars, manualVars, functionalVars,
                   runnerVars, moodRest>>

OwnersNext ==
  \/ OwnersAddModifier
  \/ OwnersRemoveModifier
  \/ OwnersClearModifiers
  \/ OwnersAddFuel

(***************************************************************************)
(* The linked list with the structure every call leaves.  listOp keeps the *)
(* list as the call left it (`raw`, before unreachable nodes are           *)
(* collected), the count before the call (`was`) and, for a traversal,     *)
(* how many objects it yielded and whether it was abandoned.               *)
(***************************************************************************)
NoLinksOp == [op |-> "new", raw |-> EmptyList, was |-> 0, yielded |-> 0,
              abandoned |-> FALSE]

LinksStart ==
  /\ list = EmptyList
  /\ listOp = NoLinksOp

\* The state a call leaves when the list it leaves is l.
LinksCommit(op, l) ==
  /\ list' = Collect(l)
  /\ listOp' = [NoLinksOp EXCEPT !.op = op, !.raw = l, !.was = list.count]
  /\ UNCHANGED <<extraVars, clockVars, varVars, furnaceVars>>

LinksPush ==
  \E x \in Objs : list.count < MaxLen /\ LinksCommit("push", push(list, x))

LinksPrepend ==
  \E x \in Objs :
    list.count < MaxLen /\ LinksCommit("prepend", prepend(list, x))

LinksRemove ==
  \E x \in Objs : LinksCommit("remove", remove(list, x).list)

LinksClear == LinksCommit("clear", clear(list))

\* for (const x of list.filterIterate(p)) {...}, run to the end (k = 0)
\* or left by a break in the body after the k-th object.
LinksFilterIterate ==
  \E Keep \in SUBSET Objs, k \in 0..MaxLen :
    LET r == filterIterateUpTo(list, Keep, k)
    IN  /\ list' = Collect(r.list)
        /\ listOp' = [op |-> "filterIterate", raw |-> r.list,
                      was |-> list.count, yielded |-> Len(r.yielded),
                      abandoned |-> r.abandoned]
        /\ UNCHANGED <<extraVars, clockVars, varVars, furnaceVars>>

LinksNext ==
  \/ LinksPush
  \/ LinksPrepend
  \/ LinksRemove
  \/ LinksClear
  \/ LinksFilterIterate

(***************************************************************************)
(* The Controller with one layer.  ctrlOp keeps, for an update tick, the   *)
(* objects of the layer and the destroyed ones when the tick began and     *)
(* the number of update(delta) calls each object received.                 *)
(***************************************************************************)
NoCtrlOp == [op |-> "new", before |-> {}, destroyed |-> {},
             updates |-> [o \in Objs |-> 0]]

\* A Controller with no objects.
CtrlIdle ==
  /\ layer = EmptyList
  /\ objects = [o \in Objs |-> "new"]
  /\ ctrlOp = NoCtrlOp

\* controller.registerObject(obj), for an object not registered before.
CtrlRegisterObject ==
  \E obj \in Objs :
    /\ objects[obj] = "new"
    /\ layer.count < MaxLen
    /\ LET r == registerObject(layer, objects, obj)
       IN  /\ layer' = Collect(r.layer)
           /\ objects' = r.objects
    /\ ctrlOp' = [NoCtrlOp EXCEPT !.op = "registerObject"]
    /\ UNCHANGED <<ctrlRest, listVars, clockVars, varVars, furnaceVars,
                   heapVars, manualVars, monitorVars, functionalVars,
                   runnerVars>>

\* controller.unregisterObject(obj), between two ticks.
CtrlUnregisterObject ==
  \E obj \in Objs :
    /\ objects[obj] = "live"
    /\ objects' = unregisterObject(objects, obj)
    /\ ctrlOp' = [NoCtrlOp EXCEPT !.op = "unregisterObject"]
    /\ UNCHANGED <<layer, ctrlRest, listVars, clockVars, varVars,
                   furnaceVars, heapVars, manualVars, monitorVars,
                   functionalVars, runnerVars>>

\* controller.update(timestamp): the loop over the layer.  At most one of
\* the update(delta) calls unregisters an object.
CtrlUpdate ==
  \E killer \in Objs \cup {Null}, victim \in Objs :
    /\ killer = Null => victim = 1
    /\ LET r == updateLoop(layer, layer.first, objects,
                           [o \in Objs |-> 0], killer, victim)
       IN  /\ layer' = Collect(r.layer)
           /\ objects' = r.objects
           /\ ctrlOp' = [op |-> "update",
                         before |-> Held(layer),
                         destroyed |->
                           {o \in Objs : objects[o] = "destroyed"},
                         updates |-> r.updates]
    /\ UNCHANGED <<ctrlRest, listVars, clockVars, varVars, furnaceVars,
                   heapVars, manualVars, monitorVars, functionalVars,
                   runnerVars>>

CtrlNext ==
  \/ CtrlRegisterObject
  \/ CtrlUnregisterObject
  \/ CtrlUpdate

(***************************************************************************)
(* A Usable item and two NPCs.  Calls of use(), calls of setBusyFor made   *)
(* for other reasons, clock ticks and the microtasks that follow a         *)
(* resolved promise are separate steps.  usableOp keeps the last call of   *)
(* use(), the Usable it found, whether canUse(npc) held and whether the    *)
(* call threw; `numUses` is the number of uses the Usable was made with.   *)
(***************************************************************************)
Npcs == {1, 2}

\* The arguments the model makes a Usable with.
MinutesPerUse == {0, 1}

NoUsableOp == [op |-> "new", status |-> Ok, could |-> FALSE,
               before |-> NewUsable(1, 0).usable, numUses |-> 1]

\* A Usable that is not used.
UsableIdle ==
  /\ usable = NewUsable(1, 0).usable
  /\ npcs = [n \in Npcs |-> FreeNpc]
  /\ usableOp = NoUsableOp

UsableStart ==
  /\ \E numUses \in 1..MaxUses, minutesPerUse \in MinutesPerUse :
       /\ usable = NewUsable(numUses, minutesPerUse).usable
       /\ usableOp = [NoUsableOp EXCEPT !.numUses = numUses]
  /\ npcs = [n \in Npcs |-> FreeNpc]

UsableRest ==
  UNCHANGED <<usableRest, listVars, varVars, furnaceVars, heapVars,
              manualVars, monitorVars, functionalVars, runnerVars>>

\* usable.use(npc)
UsableUse ==
  \E n \in Npcs :
    LET r == use(usable, npcs[n], clock.elapsedGameMinutes)
    IN  /\ usable' = r.usable
        /\ npcs' = [npcs EXCEPT ![n] = r.npc]
        /\ usableOp' = [usableOp EXCEPT
                          !.op = "use", !.status = r.status,
                          !.could = canUse(usable, npcs[n]),
                          !.before = usable]
        /\ UNCHANGED clockVars
        /\ UsableRest

\* npc.setBusyFor(1) made by something else than the Usable.
UsableSetBusyFor ==
  \E n \in Npcs :
    /\ ~isBusy(npcs[n])
    /\ npcs' = [npcs EXCEPT ![n] =
                  setBusyFor(@, 1, clock.elapsedGameMinutes, FALSE).npc]
    /\ usableOp' = [usableOp EXCEPT !.op = "setBusyFor"]
    /\ UNCHANGED <<usable, clockVars>>
    /\ UsableRest

\* The game loop advances the clock, which resolves the promises that
\* are due.
UsableTick ==
  /\ ClockUpdateStep
  /\ npcs' = [n \in Npcs |-> resolveAt(npcs[n], clock'.elapsedGameMinutes)]
  /\ usableOp' = [usableOp EXCEPT !.op = "update"]
  /\ UNCHANGED usable
  /\ UsableRest

\* The microtask that continues setBusyFor after its await; when use()
\* made the call, the completion callback is queued by it.
UsableUnbusy ==
  \E n \in Npcs :
    /\ npcs[n].busy = "resolved"
    /\ npcs' = [npcs EXCEPT ![n] = unbusy(@)]
    /\ usable' = IF npcs[n].forUse
                 THEN [usable EXCEPT !.queued = @ + 1] ELSE usable
    /\ usableOp' = [usableOp EXCEPT !.op = "unbusy"]
    /\ UNCHANGED clockVars
    /\ UsableRest

\* The microtask that runs the completion callback of a use.
UsableCallback ==
  /\ usable.queued > 0
  /\ usable' = useCallback([usable EXCEPT !.queued = @ - 1])
  /\ usableOp' = [usableOp EXCEPT !.op = "callback", !.before = usable]
  /\ UNCHANGED <<npcs, clockVars>>
  /\ UsableRest

UsableNext ==
  \/ UsableUse
  \/ UsableSetBusyFor
  \/ UsableTick
  \/ UsableUnbusy
  \/ UsableCallback

(***************************************************************************)
(* A builder from defineSequence() and the calls its interfaces allow:     *)
(* immediately(), over() and spaced() after spawn() or call() only, and    *)
(* wait() and build() on a committed builder only.  builderOp keeps the    *)
(* last call, the interface it returned (`stage`), how many instructions   *)
(* of each type spawn() and call() have queued so far (`queued`), whether  *)
(* immediately() has been called, and the Sequence the last build() made.  *)
(***************************************************************************)
\* The classes spawned and the functions called.
SpawnTypes == {"A", "B"}
CallFuncs == {"f"}

NoBuilderOp ==
  [op |-> "new", status |-> Ok, stage |-> "committed",
   queued |-> [x \in SpawnTypes \cup CallFuncs |-> 0],
   immediate |-> FALSE, built |-> << >>]

\* A builder that is not used.
BuilderIdle ==
  /\ builder = NewBuilder
  /\ builderOp = NoBuilderOp

\* The state a call leaves: r is its result, stage the interface it
\* returns when it does not throw.
BuilderCommit(op, r, stage) ==
  /\ builder' = r.builder
  /\ builderOp' = [builderOp EXCEPT
                     !.op = op, !.status = r.status,
                     !.stage = IF r.status = Ok THEN stage ELSE @,
                     !.immediate = @ \/ op = "immediately",
                     !.built = << >>]
  /\ UNCHANGED <<builderRest, listVars, clockVars, varVars, furnaceVars,
                 heapVars, manualVars, monitorVars, functionalVars,
                 runnerVars>>

\* The same for spawn() and call(), which queue `number` instructions of
\* type x.
BuilderQueue(op, r, x, number) ==
  /\ builder' = r.builder
  /\ builderOp' = [builderOp EXCEPT
                     !.op = op, !.status = r.status,
                     !.stage = IF r.status = Ok THEN "uncommitted" ELSE @,
                     !.queued[x] = IF r.status = Ok THEN @ + number ELSE @,
                     !.built = << >>]
  /\ UNCHANGED <<builderRest, listVars, clockVars, varVars, furnaceVars,
                 heapVars, manualVars, monitorVars, functionalVars,
                 runnerVars>>

BuilderSpawn ==
  \E type \in SpawnTypes, number \in 0..MaxQueued :
    /\ Len(builder.uncommittedSequence) + number <= MaxQueued
    /\ BuilderQueue("spawn", spawn(builder, type, number), type, number)

BuilderCall ==
  \E func \in CallFuncs, times \in 1..1 :
    /\ Len(builder.uncommittedSequence) + times <= MaxQueued
    /\ BuilderQueue("call", call(builder, func, times), func, times)

BuilderImmediately ==
  /\ builderOp.stage = "uncommitted"
  /\ Len(immediately(builder).builder.committedSequence) <= MaxInstructions
  /\ BuilderCommit("immediately", immediately(builder), "committed")

BuilderOver ==
  \E interval \in {0, 3}, integerize \in BOOLEAN :
    /\ builderOp.stage = "uncommitted"
    /\ Len(over(builder, interval, integerize).builder.committedSequence)
         <= MaxInstructions
    /\ BuilderCommit("over", over(builder, interval, integerize),
                     "committed")

BuilderSpaced ==
  \E interval \in {-1, 1} :
    /\ builderOp.stage = "uncommitted"
    /\ Len(spaced(builder, interval).builder.committedSequence)
         <= MaxInstructions
    /\ BuilderCommit("spaced", spaced(builder, interval), "committed")

BuilderWait ==
  \E delay \in {1} :
    /\ builderOp.stage = "committed"
    /\ Len(builder.committedSequence) < MaxInstructions
    /\ BuilderCommit("wait", wait(builder, delay), "committed")

BuilderBuild ==
  /\ builderOp.stage = "committed"
  /\ builderOp' = [builderOp EXCEPT !.op = "build", !.status = Ok,
                                    !.built = build(builder)]
  /\ UNCHANGED <<builder, builderRest, listVars, clockVars, varVars,
                 furnaceVars, heapVars, manualVars, monitorVars,
                 functionalVars, runnerVars>>

BuilderNext ==
  \/ BuilderSpawn
  \/ BuilderCall
  \/ BuilderImmediately
  \/ BuilderOver
  \/ BuilderSpaced
  \/ BuilderWait
  \/ BuilderBuild

(***************************************************************************)
(* Specifications: each component on its own, the others at rest.          *)
(***************************************************************************)
\* A Variable that is not used: the first of the constructed ones.
VarIdle ==
  /\ var = NewVariable(0, -1, 2)
  /\ mods = [m \in ModIds |-> NoModifier]
  /\ varOp = NoVarOp

\* The components added after those, not in use.
LastIdle == MoodIdle /\ CtrlIdle /\ UsableIdle /\ BuilderIdle

\* The components added last, not in use.
LaterIdle == FunctionalIdle /\ RunnerIdle /\ LastIdle

Init ==
  ListStart /\ ClockStart /\ VarStart /\ FurnaceStart
  /\ HeapStart /\ ManualIdle /\ MonitorIdle /\ LaterIdle
ListInit ==
  ListStart /\ ClockStart /\ VarIdle /\ FurnaceStart
  /\ HeapStart /\ ManualIdle /\ MonitorIdle /\ LaterIdle
ClockInit ==
  ListStart /\ ClockStart /\ VarIdle /\ FurnaceStart
  /\ HeapStart /\ ManualIdle /\ MonitorIdle /\ LaterIdle
FurnaceInit ==
  ListStart /\ ClockStart /\ VarIdle /\ FurnaceStart
  /\ HeapStart /\ ManualIdle /\ MonitorIdle /\ LaterIdle

\* The Variable engine under the game loop's clock.
Spec == Init /\ [][VarNext]_vars

SpecList == ListInit /\ [][ListNext]_vars

SpecClock == ClockInit /\ [][ClockNext]_vars

SpecFurnace == FurnaceInit /\ [][FurnaceNext]_vars

SpecReentrant == ClockInit /\ [][ReentrantNext]_vars

MemoInit ==
  ListStart /\ ClockStart /\ MemoStart
  /\ HeapStart /\ ManualIdle /\ MonitorIdle /\ LaterIdle

\* The Variable engine with its call record.
SpecMemo == MemoInit /\ [][MemoNext]_vars

HeapInit ==
  ListStart /\ ClockStart /\ VarIdle /\ FurnaceStart
  /\ HeapStart /\ ManualIdle /\ MonitorIdle /\ LaterIdle

SpecHeap == HeapInit /\ [][HeapNext]_vars

ManualInit ==
  ListStart /\ ClockStart /\ VarIdle /\ FurnaceStart
  /\ HeapStart /\ ManualStart /\ MonitorIdle /\ LaterIdle

SpecManual == ManualInit /\ [][ManualNext]_vars

MonitorInit ==
  ListStart /\ ClockStart /\ VarIdle /\ FurnaceStart
  /\ HeapStart /\ ManualIdle /\ MonitorStart /\ LaterIdle

SpecMonitor == MonitorInit /\ [][MonitorNext]_vars

BurnInit ==
  ListStart /\ ClockStart /\ VarIdle /\ BurnStart
  /\ HeapStart /\ ManualIdle /\ MonitorIdle /\ LaterIdle

\* The FurnaceVariable with its call record.
SpecBurn == BurnInit /\ [][BurnNext]_vars

ConstructInit ==
  ListStart /\ ClockStart /\ ConstructStart
  /\ HeapStart /\ ManualIdle /\ MonitorIdle /\ LaterIdle

\* Construction of variables.
SpecConstruct == ConstructInit /\ [][ConstructNext]_vars

RunnerInit ==
  ListStart /\ ClockStart /\ VarIdle /\ FurnaceStart
  /\ HeapStart /\ ManualIdle /\ MonitorIdle /\ FunctionalIdle
  /\ RunnerStart /\ LastIdle

\* One run of the test runner.
SpecRunner == RunnerInit /\ [][RunnerNext]_vars

CachedInit ==
  ListStart /\ ClockStart /\ CachedStart /\ FurnaceStart
  /\ HeapStart /\ ManualIdle /\ MonitorIdle /\ LaterIdle

\* The CachedVariable under the game loop's clock.
SpecCached == CachedInit /\ [][CachedNext]_vars

\* FunctionalModifier.decaying under the game loop's clock.
SpecFunctional == ClockInit /\ [][FunctionalNext]_vars

(***************************************************************************)
(* Helpers for stating properties.                                         *)
(***************************************************************************)
\* The subsequence of s whose elements are in S.
RECURSIVE Only(_, _)
Only(s, S) ==
  IF s = << >> THEN << >>
  ELSE IF Head(s) \in S THEN <<Head(s)>> \o Only(Tail(s), S)
       ELSE Only(Tail(s), S)

\* The sum of the amounts of the modifiers of ms (a sequence of modifiers)
\* that cannot be removed at time t.
RECURSIVE ActiveSum(_, _)
ActiveSum(ms, t) ==
  IF ms = << >> THEN 0
  ELSE (IF canBeRemoved(Head(ms), t) THEN 0 ELSE Head(ms).amount)
       + ActiveSum(Tail(ms), t)

(***************************************************************************)
(* C1: after any sequence of addModifier, removeModifier, clearModifiers   *)
(* and clock advances, every result v of Variable.getValue() satisfies     *)
(* min <= v <= max.                                                        *)
(***************************************************************************)
C1_ValueWithinBounds ==
  (varOp.op = "getValue" /\ varOp.status = Ok) =>
    /\ var.min <= varOp.value
    /\ varOp.value <= var.max

\* getValue returned max although the base value and the modifiers add up
\* to more, after the clock has advanced.
C1_Witness ==
  /\ varOp.op = "getValue"
  /\ varOp.status = Ok
  /\ varOp.recomputed
  /\ var.cachedValue > var.max
  /\ varOp.value = var.max
  /\ clock.elapsedGameMinutes > 0

(***************************************************************************)
(* C2: FurnaceVariable.getValue() returns clamp(baseValue + the sum of     *)
(* the remaining fuels' values, min, max), so for any sequence of addFuel  *)
(* calls and clock advances the result stays within [min, max].            *)
(***************************************************************************)
C2_FurnaceValueClamped ==
  furnaceOp.op = "getValue" =>
    /\ furnaceOp.value =
         clamp(furnace.baseValue + sumFuel(furnace.modifiers),
               furnace.min, furnace.max)
    /\ furnace.min <= furnaceOp.value
    /\ furnaceOp.value <= furnace.max

(***************************************************************************)
(* C3: whenever Variable.getValue() recomputes, its result equals          *)
(* clamp(baseValue + the sum of value() over exactly the modifiers of the  *)
(* collection whose canBeRemoved() is false at the current time, min,      *)
(* max), for every order of expired and non-expired modifiers.             *)
(***************************************************************************)
C3_RecomputeSumsActive ==
  (/\ varOp.op = "getValue"
   /\ varOp.status = Ok
   /\ varOp.recomputed
   /\ \A i \in 1..Len(varOp.before) :
        ~canBeRemovedThrows(varOp.before[i], clock.elapsedGameMinutes)) =>
    varOp.value =
      clamp(var.baseValue
              + ActiveSum(varOp.before, clock.elapsedGameMinutes),
            var.min, var.max)

(***************************************************************************)
(* C4: for any list contents and any predicate, filterIterate run to       *)
(* completion yields exactly the elements satisfying the predicate, in     *)
(* list order, and leaves the list holding exactly those elements, in the  *)
(* same order, with length equal to their count.                           *)
(***************************************************************************)
C4_FilterIterateExact ==
  listOp.op = "filterIterate" =>
    /\ listOp.yielded = Only(listOp.before, listOp.keep)
    /\ toArray(list) = Only(listOp.before, listOp.keep)
    /\ list.count = Len(Only(listOp.before, listOp.keep))

\* The number of elements of s that satisfy being equal to x.
Count(s, x) == Cardinality({i \in 1..Len(s) : s[i] = x})

\* s, a sequence of records with a time field, is in non-decreasing order
\* of time.
TimeOrdered(s) == \A i, j \in 1..Len(s) : i < j => s[i].time <= s[j].time

\* The invocations of `fired` made by popping the queue.
RECURSIVE Popped(_)
Popped(s) ==
  IF s = << >> THEN << >>
  ELSE IF Head(s).how = "pop" THEN <<Head(s)>> \o Popped(Tail(s))
       ELSE Popped(Tail(s))

FiredCbs == [i \in 1..Len(fired) |-> fired[i].cb]
Queued == heapObjs(clock.callbacks)

(***************************************************************************)
(* C5: Clock.schedule(callback, time) with time <= now() invokes the       *)
(* callback synchronously exactly once before it returns and does not      *)
(* queue it; with time > now() it queues (callback, time) and does not     *)
(* invoke the callback during the call.                                    *)
(***************************************************************************)
C5_ScheduleNowOrLater ==
  (clockOp.op = "schedule" /\ clockOp.time # NEVER) =>
    LET c == clockOp.cb
    IN  IF clockOp.time <= clockOp.nowBefore
        THEN /\ clockOp.status = Ok
             /\ Count(FiredCbs, c) = 1
             /\ cb[c].calls = 1
             /\ Count(Queued, c) = 0
        ELSE /\ clockOp.status = Ok
             /\ Count(FiredCbs, c) = 0
             /\ cb[c].calls = 0
             /\ Count(clock.callbacks,
                      [obj |-> c, weight |-> clockOp.time]) = 1
             /\ Count(Queued, c) = 1

\* schedule was called for exactly the current time, after time has passed.
C5_Witness ==
  /\ clockOp.op = "schedule"
  /\ clockOp.time = clockOp.nowBefore
  /\ clockOp.nowBefore > 0
  /\ cb[clockOp.cb].calls = 1
  /\ Len(clock.callbacks) > 0

(***************************************************************************)
(* C6: when Clock.update returns, every callback queued before or          *)
(* scheduled during the call with a fire-time <= the new now() has been    *)
(* invoked, and the queue holds no entry with fire-time <= now().          *)
(***************************************************************************)
C6_UpdateDrainsDue ==
  clockOp.op = "update" =>
    /\ \A c \in CbIds :
         (cb[c].scheduled /\ cb[c].time # NEVER
            /\ cb[c].time <= clock.elapsedGameMinutes) => cb[c].calls >= 1
    /\ \A i \in 1..Len(clock.callbacks) :
         clock.callbacks[i].weight > clock.elapsedGameMinutes

\* An update popped a callback due exactly now, which scheduled another one
\* that ran in the same call, and a later callback is still queued.
C6_Witness ==
  /\ clockOp.op = "update"
  /\ \E i \in 1..Len(fired) :
       /\ fired[i].how = "pop"
       /\ fired[i].time = clock.elapsedGameMinutes
  /\ \E i \in 1..Len(fired) : fired[i].how = "sync"
  /\ Len(clock.callbacks) > 0

(***************************************************************************)
(* C7 as claimed: within a single Clock.update call all callbacks invoked  *)
(* during the call, those a firing callback schedules for a time <= now()  *)
(* included, are invoked in non-decreasing order of their fire-times.      *)
(***************************************************************************)
C7_AllFiredInOrder ==
  clockOp.op = "update" => TimeOrdered(fired)

(***************************************************************************)
(* C7 as amended: within a single Clock.update call the callbacks popped   *)
(* from the queue are invoked in non-decreasing order of their fire-times; *)
(* a callback that a firing callback schedules for a time <= now() is      *)
(* invoked at once, right after the callback that scheduled it.            *)
(***************************************************************************)
C7_PoppedInOrder ==
  clockOp.op = "update" =>
    /\ TimeOrdered(Popped(fired))
    /\ \A i \in 1..Len(fired) :
         fired[i].how = "sync" =>
           /\ i > 1
           /\ cb[fired[i - 1].cb].child = fired[i].cb

\* An update popped two callbacks with different fire-times and ran a
\* synchronously scheduled one between them.
C7_Witness ==
  /\ clockOp.op = "update"
  /\ Len(fired) = 3
  /\ fired[1].how = "pop" /\ fired[2].how = "sync" /\ fired[3].how = "pop"
  /\ fired[1].time < fired[3].time

(***************************************************************************)
(* C8: a callback scheduled once is invoked exactly once over any sequence *)
(* of Clock.update calls that reaches its fire-time, and never again by    *)
(* later updates, update(0) included.                                      *)
(***************************************************************************)
C8_InvokedExactlyOnce ==
  \A c \in CbIds :
    /\ cb[c].calls <= 1
    /\ (cb[c].scheduled /\ cb[c].time # NEVER
          /\ cb[c].time <= clock.elapsedGameMinutes) => cb[c].calls = 1

\* update(0) has just returned, after an earlier update popped a callback.
C8_Witness ==
  /\ clockOp.op = "update"
  /\ clockOp.time = 0
  /\ fired = << >>
  /\ \E c \in CbIds : cb[c].how = "pop" /\ cb[c].calls = 1

(***************************************************************************)
(* C9: Clock.schedule(callback, Clock.NEVER) never queues the callback and *)
(* never invokes it, neither now nor after any later clock advance: it is  *)
(* a no-op or an explicit failure.                                         *)
(***************************************************************************)
C9_NeverIsNotScheduled ==
  /\ \A c \in CbIds :
       (cb[c].scheduled /\ cb[c].time = NEVER) =>
         /\ cb[c].calls = 0
         /\ Count(Queued, c) = 0
  /\ (clockOp.op = "schedule" /\ clockOp.time = NEVER) =>
       /\ fired = << >>
       /\ Len(clock.callbacks) = clockOp.queuedBefore

\* A callback was scheduled for NEVER and the clock has advanced since.
C9_Witness ==
  /\ \E c \in CbIds : cb[c].scheduled /\ cb[c].time = NEVER
  /\ clockOp.op = "update"
  /\ clock.elapsedGameMinutes = MaxMinutes

(***************************************************************************)
(* C10: Clock.waitUntil(Clock.NEVER) returns an already rejected promise   *)
(* and schedules nothing; waitUntil(time) with time <= now() is resolved   *)
(* during the call, and with time > now() it is resolved only when an      *)
(* update reaches that time.                                               *)
(***************************************************************************)
C10_WaitUntil ==
  /\ clockOp.op = "waitUntil" =>
       LET c == clockOp.cb
       IN  /\ clockOp.status = Ok
           /\ IF clockOp.time = NEVER
              THEN /\ cb[c].promise = "rejected"
                   /\ ~cb[c].scheduled
                   /\ fired = << >>
                   /\ Len(clock.callbacks) = clockOp.queuedBefore
              ELSE IF clockOp.time <= clockOp.nowBefore
              THEN cb[c].promise = "resolved"
              ELSE /\ cb[c].promise = "pending"
                   /\ Count(Queued, c) = 1
  /\ \A c \in CbIds :
       (cb[c].kind = "resolve" /\ cb[c].scheduled /\ cb[c].time # NEVER) =>
         (cb[c].promise = "resolved" <=>
            cb[c].time <= clock.elapsedGameMinutes)

\* One promise was rejected for NEVER and another, made for a later time,
\* was resolved by an update.
C10_Witness ==
  /\ \E c \in CbIds : cb[c].promise = "rejected"
  /\ \E c \in CbIds :
       /\ cb[c].kind = "resolve"
       /\ cb[c].how = "pop"
       /\ cb[c].promise = "resolved"

(***************************************************************************)
(* C11: Clock.update called from inside a callback that an ongoing update  *)
(* is firing fails with an error instead of running a nested advance: the  *)
(* outer update ends in an error and the clock stands where the outer      *)
(* update put it.                                                          *)
(***************************************************************************)
C11_ReentrantUpdateFails ==
  (/\ clockOp.op = "update"
   /\ \E i \in 1..Len(fired) : cb[fired[i].cb].kind = "advance") =>
    /\ clockOp.status = Threw
    /\ clock.elapsedGameMinutes = clockOp.nowBefore + clockOp.time

(***************************************************************************)
(* C12: Variable.removeModifier(m) for a modifier m that is not in the     *)
(* Variable's collection fails with an error; it is never a silent no-op.  *)
(***************************************************************************)
C12_RemoveAbsentFails ==
  (varOp.op = "removeModifier" /\ ~varOp.present) => varOp.status = Threw

(***************************************************************************)
(* C13: after addModifier, removeModifier or clearModifiers, the next      *)
(* getValue() reflects the changed modifier set even when the clock has    *)
(* not advanced since the previous getValue(): it recomputes and returns   *)
(* clamp(baseValue + the values of the modifiers now in the collection);   *)
(* and addModifier(m) followed by removeModifier(m) restores the value     *)
(* returned before the addition.                                           *)
(***************************************************************************)
C13_MutationInvalidatesMemo ==
  (/\ varOp.op = "getValue"
   /\ varOp.status = Ok
   /\ varOp.track \in {"added", "undone", "changed"}) =>
    /\ varOp.recomputed
    /\ varOp.value =
         clamp(var.baseValue
                 + ActiveSum(varOp.before, clock.elapsedGameMinutes),
               var.min, var.max)
    /\ varOp.track = "undone" => varOp.value = varOp.last

(***************************************************************************)
(* C14: two consecutive getValue() calls on a Variable or a                *)
(* FurnaceVariable, with no clock advance and no modifier or fuel call     *)
(* between them, return identical results, and the second call changes no  *)
(* state (memo, modifier collection, fuel progress).                       *)
(***************************************************************************)
C14_GetValueIdempotent ==
  /\ (varOp.op = "getValue" /\ varOp.track = "none") =>
       /\ varOp.status = Ok
       /\ varOp.value = varOp.last
       /\ ~varOp.changed
  /\ (furnaceOp.op = "getValue" /\ furnaceOp.consecutive) =>
       /\ furnaceOp.value = furnaceOp.last
       /\ ~furnaceOp.changed

\* The first of two consecutive calls on a Variable recomputed after the
\* clock had advanced and summed a modifier; the second found the memo.
C14_VariableCase ==
  /\ varOp.op = "getValue"
  /\ varOp.track = "none"
  /\ ~varOp.recomputed
  /\ clock.elapsedGameMinutes > 0
  /\ var.modifiers.count > 0
  /\ var.cachedValue # var.baseValue

\* The first of two consecutive calls on a FurnaceVariable burnt part of
\* the fuel at the root of the heap; the second left it as it was.
C14_FurnaceCase ==
  /\ furnaceOp.op = "getValue"
  /\ furnaceOp.consecutive
  /\ furnace.lastRecomputed > 0
  /\ ~isEmpty(furnace.modifiers)
  /\ peek(furnace.modifiers).progress > 0

C14_Witness == C14_VariableCase \/ C14_FurnaceCase

\* The elements a stand-alone heap can hold.
HeapElements == [obj : Objs, weight : HeapWeights]

\* s, a sequence of heap elements, is in non-decreasing order of weight.
WeightOrdered(s) ==
  \A i, j \in 1..Len(s) : i < j => s[i].weight <= s[j].weight

\* w is the smallest weight in the sequence of heap elements s.
IsMinWeight(w, s) ==
  /\ \E i \in 1..Len(s) : s[i].weight = w
  /\ \A i \in 1..Len(s) : w <= s[i].weight

(***************************************************************************)
(* C15: Minheap.pop() returns an element whose weight is minimal among     *)
(* the elements in the heap and removes exactly that element; so in any    *)
(* run of pops after pushes the popped weights are in non-decreasing       *)
(* order, and when the heap is empty the popped elements are exactly the   *)
(* pushed ones.                                                            *)
(***************************************************************************)
C15_PopReturnsMinimum ==
  /\ (heapOp.op = "pop" /\ heapOp.status = Ok) =>
       LET e == heapOp.popped[Len(heapOp.popped)]
       IN  /\ e.obj = heapOp.ret
           /\ IsMinWeight(e.weight, heapOp.before)
           /\ \A x \in HeapElements :
                Count(heap, x) + (IF x = e THEN 1 ELSE 0)
                  = Count(heapOp.before, x)
  /\ heapOp.op = "pop" =>
       /\ WeightOrdered(heapOp.popped)
       /\ \A x \in HeapElements :
            Count(heapOp.popped, x) + Count(heap, x) = Count(heapOp.full, x)

\* A full heap whose array was not in order of weight has been popped
\* until empty.
C15_Witness ==
  /\ heapOp.op = "pop"
  /\ heapOp.status = Ok
  /\ heap = EmptyHeap
  /\ Len(heapOp.popped) = MaxHeap
  /\ ~WeightOrdered(heapOp.full)
  /\ heapOp.popped[1].weight < heapOp.popped[MaxHeap].weight

(***************************************************************************)
(* C16: Minheap.pop(), peek() and peekWeight() on an empty heap fail with  *)
(* an error and leave the heap empty; on a non-empty heap peek() and       *)
(* peekWeight() return the minimum-weight element and its weight without   *)
(* changing the heap.                                                      *)
(***************************************************************************)
C16_EmptyHeapFails ==
  /\ (heapOp.op \in {"pop", "peek", "peekWeight"}
        /\ heapOp.before = EmptyHeap) =>
       /\ heapOp.status = Threw
       /\ heap = EmptyHeap
  /\ (heapOp.op = "peek" /\ heapOp.before # EmptyHeap) =>
       /\ heapOp.status = Ok
       /\ heap = heapOp.before
       /\ \E i \in 1..Len(heap) :
            /\ heap[i].obj = heapOp.ret
            /\ IsMinWeight(heap[i].weight, heap)
  /\ (heapOp.op = "peekWeight" /\ heapOp.before # EmptyHeap) =>
       /\ heapOp.status = Ok
       /\ heap = heapOp.before
       /\ IsMinWeight(heapOp.ret, heap)

\* peek() on a full heap whose array is not in order of weight.
C16_Witness ==
  /\ heapOp.op = "peek"
  /\ heapOp.status = Ok
  /\ Len(heap) = MaxHeap
  /\ ~WeightOrdered(heap)
  /\ heap[1].weight < heap[2].weight

\* The sequence s without its element at position i.
Without(s, i) == SubSeq(s, 1, i - 1) \o SubSeq(s, i + 1, Len(s))

\* The position of the last occurrence of x in s (x occurs in s).
LastIndex(s, x) ==
  CHOOSE i \in 1..Len(s) :
    s[i] = x /\ \A j \in (i + 1)..Len(s) : s[j] # x

C18_FixedModifierLifetime ==
  LET t == clock.elapsedGameMinutes
  IN  /\ \A i \in 1..var.modifiers.count :
           LET m == mods[i]
           IN  IF m.duration = NEVER
               THEN /\ ~canBeRemovedThrows(m, t)
                    /\ ~canBeRemoved(m, t)
                    /\ value(m, t) = m.amount
               ELSE m.duration # JsNull =>
                      /\ ~canBeRemovedThrows(m, t)
                      /\ canBeRemoved(m, t) <=> (t - m.createdAt >= m.duration)
                      /\ value(m, t) = IF t - m.createdAt >= m.duration
                                       THEN 0 ELSE m.amount
      /\ (/\ varOp.op = "getValue"
          /\ \E i \in 1..Len(varOp.before) :
               varOp.before[i].duration = NEVER) =>
           varOp.status = Ok

(***************************************************************************)
(* C19: setting a ManualModifier's progress to a value lower than its      *)
(* current progress fails with an error and leaves the progress            *)
(* unchanged; setting it to an equal or higher value succeeds, so progress *)
(* is non-decreasing over any sequence of assignments.                     *)
(***************************************************************************)
C19_ProgressNeverLowered ==
  manualOp.op = "setProgress" =>
    /\ IF manualOp.arg < manualOp.before
       THEN /\ manualOp.status = Threw
            /\ manual.progress = manualOp.before
       ELSE /\ manualOp.status = Ok
            /\ manual.progress = manualOp.arg
    /\ manual.progress >= manualOp.before

\* An assignment of a lower value was refused after the progress had been
\* raised past the duration of the modifier.
C19_Witness ==
  /\ manualOp.op = "setProgress"
  /\ manualOp.status = Threw
  /\ manualOp.arg > 0
  /\ manual.progress = MaxProgress
  /\ manual.duration > 0
  /\ manual.progress > manual.duration

\* What getValue() of a source variable returns in the current state.
CurrentValue(name) ==
  IF name = "var" THEN getValue(var, mods, clock.elapsedGameMinutes).ret
  ELSE furnaceGetValue(furnace, clock.elapsedGameMinutes).ret

RECURSIVE SumOfCurrent(_)
SumOfCurrent(terms) ==
  IF terms = << >> THEN 0
  ELSE CurrentValue(Head(terms)) + SumOfCurrent(Tail(terms))

(***************************************************************************)
(* C20: MonitoringModifier.sumOf(v1, ..., vn).value() always equals the    *)
(* sum of the current getValue() of its source variables, at every time    *)
(* and after any later change to the sources' modifiers, with no explicit  *)
(* invalidation; and its canBeRemoved() is always false.                   *)
(***************************************************************************)
C20_SumOfTracksSources ==
  /\ monitorOp.op = "value" =>
       monitorOp.value = SumOfCurrent(monitor.variables)
  /\ monitorOp.op = "canBeRemoved" => ~monitorOp.removable

\* value() of sumOf(var, furnace) after the clock has advanced, with a
\* modifier on the Variable and a partly burnt fuel in the furnace.
C20_Witness ==
  /\ monitorOp.op = "value"
  /\ monitor.variables = <<"var", "furnace">>
  /\ clock.elapsedGameMinutes > 0
  /\ var.modifiers.count > 0
  /\ var.cachedValue # var.baseValue
  /\ ~isEmpty(furnace.modifiers)
  /\ peek(furnace.modifiers).progress > 0
  /\ monitorOp.value # var.baseValue + furnace.baseValue


(***************************************************************************)
(* C21: for a FurnaceVariable constructed at time t with a single          *)
(* addFuel(q, d) at the same time t, getValue() after the clock has        *)
(* advanced by e returns baseValue + q * (1 - e / d) when 0 <= e < d and   *)
(* baseValue when e >= d, after which the fuel is no longer in the queue.  *)
(* The furnace of the model is constructed at time 0.                      *)
(***************************************************************************)
C21_SingleFuelBurnsLinearly ==
  (/\ furnaceOp.op = "getValue"
   /\ furnaceOp.adds = 1
   /\ furnaceOp.only.at = 0
   /\ furnaceOp.only.duration > 0)
  => LET q == furnaceOp.only.quantity
         d == furnaceOp.only.duration
         e == furnaceOp.at
     IN  /\ e < d =>
              furnaceOp.value = furnace.baseValue + (q * (d - e)) \div d
         /\ e >= d =>
              /\ furnaceOp.value = furnace.baseValue
              /\ furnace.modifiers = << >>

\* getValue finds the only fuel, 60 units of food eaten at time 0 and
\* lasting 2 minutes, half consumed.
C21_Witness ==
  /\ furnaceOp.op = "getValue"
  /\ furnaceOp.adds = 1
  /\ furnaceOp.only = [quantity |-> -60, duration |-> 2, at |-> 0]
  /\ furnaceOp.at = 1
  /\ furnaceOp.value = 70
  /\ Len(furnace.modifiers) = 1

(***************************************************************************)
(* C22: constructing a Variable or a FurnaceVariable with min >= max       *)
(* fails with an error, so every constructed variable satisfies            *)
(* min < max.  A null argument stands for the class's static bound.        *)
(***************************************************************************)
C22_MinBelowMax ==
  /\ \A op \in {varOp, furnaceOp} :
       op.op = "new" =>
         LET lo == IF op.min = JsNull THEN Statics(op.cls).min ELSE op.min
             hi == IF op.max = JsNull THEN Statics(op.cls).max ELSE op.max
         IN  (lo >= hi) <=> (op.status = Threw)
  /\ var.min < var.max
  /\ furnace.min < furnace.max

\* new Hunger(title, description, null, 100, null) has thrown, min being
\* equal to Hunger.max; the furnace is the one constructed before it.
C22_Witness ==
  /\ furnaceOp.op = "new"
  /\ furnaceOp.cls = "Hunger"
  /\ furnaceOp.min = 100
  /\ furnaceOp.max = JsNull
  /\ furnaceOp.status = Threw
  /\ furnace.min < furnace.max

(***************************************************************************)
(* C23: FurnaceVariable.addFuel fails with an error, adding nothing to     *)
(* the queue, whenever duration <= 0 or quantity <= 0.                     *)
(***************************************************************************)
C23_AddFuelRejectsNonPositive ==
  (/\ furnaceOp.op = "addFuel"
   /\ (furnaceOp.duration <= 0 \/ furnaceOp.quantity <= 0))
  => /\ furnaceOp.status = Threw
     /\ furnace.modifiers = furnaceOp.before

(***************************************************************************)
(* C24: FunctionalModifier.decaying(initialValue, halfLife, description,   *)
(* insignificantValue) fails with an error when halfLife <= 0 or when      *)
(* sign(insignificantValue) differs from sign(initialValue), and           *)
(* otherwise returns a modifier whose duration is >= 0.  An insignificant  *)
(* value left out is on the side of the initial value.                     *)
(***************************************************************************)
C24_DecayingChecksArguments ==
  functionalOp.op = "decaying" =>
    LET mismatch ==
          /\ functionalOp.insignificantValue # JsNull
          /\ \/ (functionalOp.insignificantValue > 0)
                  # (functionalOp.initialValue > 0)
             \/ (functionalOp.insignificantValue < 0)
                  # (functionalOp.initialValue < 0)
    IN  IF functionalOp.halfLife <= 0 \/ mismatch
        THEN functionalOp.status = Threw
        ELSE /\ functionalOp.status = Ok
             /\ functional.duration >= 0

\* decaying(2, 1, null, 8): the insignificant value is above the initial
\* value, and the modifier returned has the duration 0 = max(0, -2).
C24_Witness ==
  /\ functionalOp.op = "decaying"
  /\ functionalOp.initialValue = 4
  /\ functionalOp.halfLife = 1
  /\ functionalOp.insignificantValue = 16
  /\ functionalOp.status = Ok
  /\ functional.duration = 0

C26_NotInvokedEarly ==
  /\ \A i \in 1..Len(fired) : fired[i].time <= clock.elapsedGameMinutes
  /\ \A c \in CbIds :
       (/\ cb[c].scheduled
        /\ cb[c].time # NEVER
        /\ cb[c].time > clock.elapsedGameMinutes)
       => /\ cb[c].calls = 0
          /\ Count(Queued, c) = 1

\* An update that advanced the clock found two callbacks queued, popped
\* one that was due and left the other, due later, in the queue.
C26_Witness ==
  /\ clockOp.op = "update"
  /\ clock.elapsedGameMinutes > clockOp.nowBefore
  /\ clockOp.queuedBefore = 2
  /\ Len(fired) = 1
  /\ fired[1].how = "pop"
  /\ \E c \in CbIds :
       /\ cb[c].scheduled
       /\ cb[c].time > clock.elapsedGameMinutes
       /\ cb[c].calls = 0
       /\ Queued = <<c>>

(***************************************************************************)
(* C27: a Variable whose only modifiers are constant, non-expiring         *)
(* FixedModifiers invokes no modifier's value() on any getValue() after    *)
(* the first one, even across clock advances, until the modifier set       *)
(* changes.  A getValue that finds _lastRecomputed set follows another     *)
(* one with no change of the modifier set in between, and one that         *)
(* recomputes calls value() on every such modifier.                        *)
(***************************************************************************)
C27_NoRecomputeForConstants ==
  (/\ varOp.op = "getValue"
   /\ varOp.since # NEVER
   /\ varOp.before # << >>
   /\ \A i \in 1..Len(varOp.before) :
        /\ varOp.before[i].kind = "fixed"
        /\ varOp.before[i].duration = JsNull)
  => ~varOp.recomputed

\* The sum of the amounts of the modifiers of s whose zeroAfter has not
\* been reached at time t.
RECURSIVE LiveAmounts(_, _)
LiveAmounts(s, t) ==
  IF s = << >> THEN 0
  ELSE (IF Head(s).zeroAfter # NEVER /\ t >= Head(s).zeroAfter
        THEN 0 ELSE Head(s).amount)
       + LiveAmounts(Tail(s), t)

(***************************************************************************)
(* C28: for a CachedVariable, once a modifier's expiry time zeroAfter has  *)
(* been reached (Clock.now() >= zeroAfter), the next getValue() no longer  *)
(* includes that modifier's contribution, also when the aggregated         *)
(* recompute policy is RECOMPUTE_NEVER.  The amounts of the model being    *)
(* positive, a value without the expired modifiers' contributions is at    *)
(* most the base value plus the amounts of the others.                     *)
(***************************************************************************)
C28_ExpiredExcluded ==
  varOp.op = "getValue" =>
    varOp.value <=
      Min2(var.max,
           var.baseValue
             + LiveAmounts(varOp.before, clock.elapsedGameMinutes))

\* The highest recomputePolicy among the modifiers of s, RECOMPUTE_NEVER
\* for none.
MaxPolicy(s) ==
  IF s = << >> THEN RECOMPUTE_NEVER
  ELSE CHOOSE p \in {s[i].recomputePolicy : i \in 1..Len(s)} :
         \A i \in 1..Len(s) : s[i].recomputePolicy <= p

(***************************************************************************)
(* C29: for a CachedVariable, after every addModifier, removeModifier and  *)
(* getValue() (including one that prunes expired modifiers or follows the  *)
(* addition of an already-expired modifier), the aggregated                *)
(* recomputePolicy equals the maximum recomputePolicy of the modifiers     *)
(* currently in its collection, or RECOMPUTE_NEVER when the collection is  *)
(* empty.                                                                  *)
(***************************************************************************)
C29_PolicyIsMaximum ==
  var.recomputePolicy = MaxPolicy(Modifiers(var.modifiers, mods))

\* A getValue has pruned an expired modifier of policy
\* RECOMPUTE_EACH_UPDATE and left one of policy RECOMPUTE_NEVER, which the
\* variable's policy has come down to.
C29_Witness ==
  /\ varOp.op = "getValue"
  /\ varOp.recomputed
  /\ Len(varOp.before) = 2
  /\ \E i \in 1..2 :
       /\ varOp.before[i].recomputePolicy = RECOMPUTE_EACH_UPDATE
       /\ varOp.before[i].zeroAfter # NEVER
       /\ varOp.before[i].zeroAfter <= clock.elapsedGameMinutes
  /\ var.modifiers.count = 1
  /\ mods[1].recomputePolicy = RECOMPUTE_NEVER
  /\ var.recomputePolicy = RECOMPUTE_NEVER

\* The elements of the heap h in the order in which pop returns them.
RECURSIVE DrainOrder(_)
DrainOrder(h) ==
  IF h = << >> THEN << >>
  ELSE <<h[1]>> \o DrainOrder(heapPop(h).heap)

\* The time that the fuels s[from..to] have left to burn.
RECURSIVE TimeLeft(_, _, _)
TimeLeft(s, from, to) ==
  IF from > to THEN 0
  ELSE s[from].obj.duration - s[from].obj.progress
       + TimeLeft(s, from + 1, to)

(***************************************************************************)
(* C30: between two consecutive FurnaceVariable.getValue() calls at times  *)
(* t0 < t1 with no addFuel in between, fuels are consumed strictly in      *)
(* ascending weight order: the total progress added over all fuels equals  *)
(* min(t1 - t0, total remaining duration of the queue), every fuel         *)
(* consumed past its duration is popped with the remainder carried to the  *)
(* next fuel, and at most one fuel remaining in the queue has its progress *)
(* changed.  With k fuels popped, the queue afterwards is the queue before *)
(* without the k fuels of lowest weight.                                   *)
(***************************************************************************)
C30_FuelsBurnInWeightOrder ==
  (/\ furnaceOp.op = "getValue"
   /\ furnaceOp.clean
   /\ furnaceOp.since < furnaceOp.at)
  => LET B == DrainOrder(furnaceOp.before)
         A == DrainOrder(furnace.modifiers)
         k == Len(B) - Len(A)
         elapsed == furnaceOp.at - furnaceOp.since
     IN  /\ k >= 0
         /\ WeightOrdered(B)
         /\ \A i \in 1..Len(A) :
              /\ A[i].weight = B[k + i].weight
              /\ A[i].obj.quantity = B[k + i].obj.quantity
              /\ A[i].obj.duration = B[k + i].obj.duration
              /\ A[i].obj.progress >= B[k + i].obj.progress
              /\ A[i].obj.progress < A[i].obj.duration
              /\ A[i].obj.progress # B[k + i].obj.progress => i = 1
         /\ TimeLeft(B, 1, Len(B)) - TimeLeft(A, 1, Len(A))
              = Min2(elapsed, TimeLeft(B, 1, Len(B)))

\* Two minutes after the last getValue, a getValue found two fuels, popped
\* the one of lower weight, which had a minute left, and spent the other
\* minute on the second.
C30_Witness ==
  /\ furnaceOp.op = "getValue"
  /\ furnaceOp.clean
  /\ furnaceOp.at - furnaceOp.since = 2
  /\ Len(furnaceOp.before) = 2
  /\ TimeLeft(DrainOrder(furnaceOp.before), 1, 1) = 1
  /\ Len(furnace.modifiers) = 1
  /\ furnace.modifiers[1].obj.progress = 1
  /\ furnace.modifiers[1].obj.duration = 2

\* Whether the heap entry e carries the weight addFuel gives when no weight
\* is passed.  The explicit weight of the model, 0, is never a default one,
\* because a fuel of quantity 0 is not queued.
DefaultWeighted(e) ==
  e.weight = -burnRate(e.obj.quantity, e.obj.duration)

\* The amount of the fuel f consumed per game minute.
ConsumedPerMinute(f) == abs(burnRate(f.quantity, f.duration))

(***************************************************************************)
(* C31: with default weights (no weight passed to addFuel), whenever two   *)
(* fuels are in a FurnaceVariable's queue the faster-burning one (greater  *)
(* |quantity| / duration) is consumed before the slower-burning one, for   *)
(* quantities of either sign.  Consumption follows the pop order of the    *)
(* queue, so of two default-weighted fuels the one popped first burns at   *)
(* least as fast as the other.                                             *)
(***************************************************************************)
C31_FasterFuelFirst ==
  LET Q == DrainOrder(furnace.modifiers)
  IN  \A i, j \in 1..Len(Q) :
        (i < j /\ DefaultWeighted(Q[i]) /\ DefaultWeighted(Q[j]))
        => ConsumedPerMinute(Q[i].obj) >= ConsumedPerMinute(Q[j].obj)

\* The same for fuels of positive quantity only.
C31_FasterFuelFirstPositive ==
  LET Q == DrainOrder(furnace.modifiers)
  IN  \A i, j \in 1..Len(Q) :
        (/\ i < j /\ DefaultWeighted(Q[i]) /\ DefaultWeighted(Q[j])
         /\ Q[i].obj.quantity > 0 /\ Q[j].obj.quantity > 0)
        => ConsumedPerMinute(Q[i].obj) >= ConsumedPerMinute(Q[j].obj)

\* The total unconsumed fuel of a queue: the sum of the fuels' value().
UnconsumedFuel(h) == sumFuel(h)

\* Whether every fuel of the queue h was added with a positive quantity.
AllPositive(h) == \A i \in 1..Len(h) : h[i].obj.quantity > 0

(***************************************************************************)
(* C32: for a FurnaceVariable, the total unconsumed fuel (the sum of the   *)
(* remaining fuels' value()) is non-negative in every reachable state and, *)
(* between addFuel calls, never increases as virtual time advances: the    *)
(* total a getValue() leaves is at most the total of the queue it found.   *)
(***************************************************************************)
C32_UnconsumedFuel ==
  /\ UnconsumedFuel(furnace.modifiers) >= 0
  /\ furnaceOp.op = "getValue"
     => UnconsumedFuel(furnace.modifiers) <= UnconsumedFuel(furnaceOp.before)

\* The same for queues that hold fuels of positive quantity only.
C32_UnconsumedFuelPositive ==
  AllPositive(furnace.modifiers)
  => /\ UnconsumedFuel(furnace.modifiers) >= 0
     /\ (furnaceOp.op = "getValue" /\ AllPositive(furnaceOp.before))
        => UnconsumedFuel(furnace.modifiers)
             <= UnconsumedFuel(furnaceOp.before)

\* The second half alone: no getValue() leaves a greater total than the
\* queue it found had.
C32_NeverIncreases ==
  furnaceOp.op = "getValue"
  => UnconsumedFuel(furnace.modifiers) <= UnconsumedFuel(furnaceOp.before)

MoodInit ==
  ListStart /\ ClockStart /\ VarIdle /\ FurnaceStart
  /\ HeapStart /\ ManualIdle /\ FunctionalIdle /\ RunnerIdle
  /\ MoodStart /\ CtrlIdle /\ UsableIdle /\ BuilderIdle

\* The mood of an NPC over its Hunger, under the game loop's clock.
SpecMood == MoodInit /\ [][MoodNext]_vars

\* What mood.getValue() is when computed from the source's current value.
MoodFromCurrent ==
  clamp(mood.baseValue + linearFunc(monitor, CurrentValue("furnace")),
        mood.min, mood.max)

(***************************************************************************)
(* C33: getValue() of a Variable that holds a MonitoringModifier always    *)
(* uses the source variables' current values: if a source variable's       *)
(* modifier set changes after the owner was last queried, the owner's next *)
(* getValue() reflects the change even when the clock has not advanced in  *)
(* between.                                                                *)
(***************************************************************************)
C33_OwnerUsesCurrentValues ==
  moodOp.op = "getValue" => moodOp.value = MoodFromCurrent

\* The same for the calls in which _computeValue recomputed.
C33_RecomputedUsesCurrentValues ==
  (moodOp.op = "getValue" /\ moodOp.recomputed)
  => moodOp.value = MoodFromCurrent

OwnersInit ==
  ListStart /\ ClockStart /\ FurnaceStart /\ HeapStart /\ ManualIdle
  /\ MonitorIdle /\ FunctionalIdle /\ RunnerIdle /\ OwnersStart
  /\ CtrlIdle /\ UsableIdle /\ BuilderIdle

\* Two Variables, the Hunger and the modifiers of a caller.
SpecOwners == OwnersInit /\ [][OwnersNext]_vars

(***************************************************************************)
(* C34: in every reachable state no Modifier instance is held by more than *)
(* one Variable/FurnaceVariable, for any sequence of addModifier,          *)
(* removeModifier, clearModifiers and addFuel calls.                       *)
(***************************************************************************)
C34_SingleOwner ==
  Held(var.modifiers) \cap Held(mood.modifiers) = {}

LinksInit ==
  LinksStart /\ ClockStart /\ VarIdle /\ FurnaceStart
  /\ HeapStart /\ ManualIdle /\ MonitorIdle /\ LaterIdle

\* The linked list and the structure its calls leave.
SpecLinks == LinksInit /\ [][LinksNext]_vars

\* The sequence s in reverse order.
Reverse(s) == [i \in 1..Len(s) |-> s[Len(s) + 1 - i]]

\* The invariant of LinkedList on the list l.
WellLinked(l) ==
  LET forward == Forward(l, l.first, MaxLen + 1)
      backward == Backward(l, l.last, MaxLen + 1)
  IN  /\ (l.first = Null) <=> (l.last = Null)
      /\ (l.last = Null) <=> (l.count = 0)
      /\ l.count = Len(forward)
      /\ backward = Reverse(forward)

(***************************************************************************)
(* C35: after any sequence of push, prepend, remove, clear and completed   *)
(* or abandoned filterIterate traversals on a LinkedList, first is null    *)
(* iff last is null iff count is 0, count equals the number of nodes       *)
(* reachable from first, and the backward traversal from last via prev     *)
(* visits the same nodes in reverse order.                                 *)
(***************************************************************************)
C35_ListIsWellLinked ==
  /\ WellLinked(listOp.raw)
  /\ WellLinked(list)

\* A traversal of a list of three nodes removed the head and was left at
\* the first object it yielded; two nodes remain.
C35_Witness ==
  /\ listOp.op = "filterIterate"
  /\ listOp.abandoned
  /\ listOp.yielded = 1
  /\ listOp.was = 3
  /\ list.count = 2

(***************************************************************************)
(* C36: fuel added to a FurnaceVariable at time t is consumed only for     *)
(* virtual time that elapses after t: if the furnace was constructed or    *)
(* last queried at t0 < t and addFuel(q, d) is called at t with no         *)
(* getValue() in between, then getValue() at time t returns baseValue + q  *)
(* (plus other fuels), not a value reduced by the interval t - t0.  The    *)
(* case checked is the one of a single fuel: the only addFuel call was     *)
(* made at the time of the getValue() and after the last recomputation.    *)
(***************************************************************************)
C36_FuelBurnsFromWhenAdded ==
  (/\ furnaceOp.op = "getValue"
   /\ ~furnaceOp.clean
   /\ furnaceOp.adds = 1
   /\ Len(furnaceOp.before) = 1
   /\ furnaceOp.only.at = furnaceOp.at
   /\ furnaceOp.since < furnaceOp.at)
  => furnaceOp.value = furnace.baseValue + furnaceOp.only.quantity

\* The same when the fuel is added at the time of the last recomputation.
C36_FuelAddedWhenRecomputed ==
  (/\ furnaceOp.op = "getValue"
   /\ ~furnaceOp.clean
   /\ furnaceOp.adds = 1
   /\ Len(furnaceOp.before) = 1
   /\ furnaceOp.only.at = furnaceOp.at
   /\ furnaceOp.since = furnaceOp.at)
  => furnaceOp.value = furnace.baseValue + furnaceOp.only.quantity

CtrlInit ==
  ListStart /\ ClockStart /\ VarIdle /\ FurnaceStart /\ HeapStart
  /\ ManualIdle /\ MonitorIdle /\ FunctionalIdle /\ RunnerIdle
  /\ MoodIdle /\ CtrlIdle /\ UsableIdle /\ BuilderIdle

\* The Controller: objects registered, unregistered and updated.
SpecCtrl == CtrlInit /\ [][CtrlNext]_vars

(***************************************************************************)
(* C37: in every Controller.update tick, each registered object whose id   *)
(* is not null at the moment it is visited receives exactly one            *)
(* update(delta) call, whatever the positions of destroyed objects (id === *)
(* null) in its layer, and every destroyed object is unlinked from its     *)
(* layer by the end of the tick.  Checked for the objects that are live    *)
(* throughout the tick and for the objects destroyed before it began.      *)
(***************************************************************************)
C37_LiveUpdatedDestroyedUnlinked ==
  ctrlOp.op = "update"
  => /\ \A o \in ctrlOp.before :
          objects[o] = "live" => ctrlOp.updates[o] = 1
     /\ \A o \in ctrlOp.destroyed : o \notin Held(layer)

\* The first half alone.
C37_LiveUpdatedOnce ==
  ctrlOp.op = "update"
  => \A o \in ctrlOp.before : objects[o] = "live" => ctrlOp.updates[o] = 1

\* The second half alone.
C37_DestroyedUnlinked ==
  ctrlOp.op = "update" => \A o \in ctrlOp.destroyed : o \notin Held(layer)

\* What does hold: no object is updated twice in a tick, and an object
\* destroyed before the tick is not updated in it.
C37_AtMostOnce ==
  ctrlOp.op = "update"
  => /\ \A o \in Objs : ctrlOp.updates[o] <= 1
     /\ \A o \in ctrlOp.destroyed : ctrlOp.updates[o] = 0

UsableInit ==
  ListStart /\ ClockStart /\ VarIdle /\ FurnaceStart /\ HeapStart
  /\ ManualIdle /\ MonitorIdle /\ FunctionalIdle /\ RunnerIdle
  /\ MoodIdle /\ CtrlIdle /\ UsableStart /\ BuilderIdle

\* A Usable item used by two NPCs under the game loop's clock.
SpecUsable == UsableInit /\ [][UsableNext]_vars

\* The uses that have started and whose completion callback has not run.
UsesInProgress ==
  Cardinality({n \in Npcs : isBusy(npcs[n]) /\ npcs[n].forUse})
  + usable.queued

(***************************************************************************)
(* C38: for a Usable item, uses never overlap (canUse is false from the    *)
(* start of use() until its completion callback runs), remainingUses       *)
(* decreases by exactly one per completed use and never drops below 0, and *)
(* USED_UP is sent exactly once, when remainingUses reaches 0; use() when  *)
(* canUse(npc) is false fails without changing remainingUses or isInUse.   *)
(***************************************************************************)
C38_UsesDoNotOverlap ==
  /\ UsesInProgress <= 1
  /\ UsesInProgress = 1 <=> usable.isInUse
  /\ usable.isInUse => \A n \in Npcs : ~canUse(usable, npcs[n])
  /\ usable.remainingUses = usableOp.numUses - usable.used
  /\ usable.remainingUses >= 0
  /\ usable.usedUp = IF usable.remainingUses = 0 THEN 1 ELSE 0
  /\ usableOp.op = "callback"
     => usable.remainingUses = usableOp.before.remainingUses - 1
  /\ usableOp.op = "use"
     => /\ usableOp.status = Threw <=> ~usableOp.could
        /\ usableOp.status = Threw
           => /\ usable.remainingUses = usableOp.before.remainingUses
              /\ usable.isInUse = usableOp.before.isInUse

\* While one NPC is using the item, use() by the other NPC, which is not
\* busy, has failed.
C38_Witness ==
  /\ usableOp.op = "use"
  /\ usableOp.status = Threw
  /\ usable.isInUse
  /\ usable.remainingUses = 2
  /\ \E n \in Npcs : ~isBusy(npcs[n])
  /\ \E n \in Npcs : npcs[n].busy = "waiting" /\ npcs[n].forUse

\* The last use has completed after a wait: USED_UP has been sent once and
\* the item is despawned.
C38_UsedUp ==
  /\ usableOp.op = "callback"
  /\ usable.usedUp = 1
  /\ usable.used = 2
  /\ usable.remainingUses = 0
  /\ ~usable.itemLive

BuilderInit ==
  ListStart /\ ClockStart /\ VarIdle /\ FurnaceStart /\ HeapStart
  /\ ManualIdle /\ MonitorIdle /\ FunctionalIdle /\ RunnerIdle
  /\ MoodIdle /\ CtrlIdle /\ UsableIdle /\ BuilderIdle

\* The sequence builder, from defineSequence() on.
SpecBuilder == BuilderInit /\ [][BuilderNext]_vars

\* How many instructions of the sequence s spawn the class, or call the
\* function, x.
Occurrences(s, x) ==
  Cardinality({i \in 1..Len(s) : s[i].keyword # "wait" /\ s[i].type = x})

(***************************************************************************)
(* C39: in the sequence builder, each instruction queued by spawn()/call() *)
(* is committed exactly once: after spawn(A).immediately() followed by     *)
(* spawn(B).immediately() (or .spaced()/.over()), the built Sequence       *)
(* contains A exactly once and B exactly once.  In general, a built        *)
(* Sequence holds as many instructions of each type as were queued.        *)
(***************************************************************************)
C39_CommittedExactlyOnce ==
  builderOp.op = "build"
  => \A x \in SpawnTypes \cup CallFuncs :
       Occurrences(builderOp.built, x) = builderOp.queued[x]

\* The same for builders on which immediately() has not been called.
C39_WithoutImmediately ==
  (builderOp.op = "build" /\ ~builderOp.immediate)
  => \A x \in SpawnTypes \cup CallFuncs :
       Occurrences(builderOp.built, x) = builderOp.queued[x]

=========================================================================
